---- MODULE Spec2Model ----
(***************************************************************************)
(* Model of the k8s provisioning program (package main):                   *)
(*   - the memoized machine factories getSpkez / getK8s / getCtl,          *)
(*   - main / run and the six provisioning steps,                          *)
(*   - the command-execution layers the steps are written against          *)
(*     (sub.Machine delegation, command.Shell, command.Copy, WriteFile).   *)
(*                                                                         *)
(* Three specifications share the module:                                  *)
(*   Spec      one provisioning run (single goroutine) against a           *)
(*             nondeterministic environment;                               *)
(*   SpecSub   the delegation layer as a pure function of prefix, command  *)
(*             and arguments;                                              *)
(*   SpecOnce  several goroutines calling the memoized factories           *)
(*             concurrently (sync.OnceValues at the granularity of         *)
(*             sync.Once: done flag, mutex, re-check under the mutex).     *)
(***************************************************************************)
EXTENDS Naturals, Sequences, FiniteSets, TLC

VARIABLES
    pc,        \* position of the main goroutine
    stack,     \* return positions of the factory calls in progress
    verbose,   \* the -v flag
    Trace,     \* command.Trace: "Discard" or "ShTrace"
    once,      \* per factory: the OnceValues cell (done, machine, error)
    machines,  \* the machines constructed so far
    calls,     \* every invocation issued, in issue order
    steps,     \* enter / return events of the provisioning steps
    files,     \* the remote file system
    tmpfs,     \* the local temporary file system holding the ssh key
    deferred,  \* functions registered with defers.Add
    stdout,    \* lines printed to standard output
    stderr,    \* errors printed to the diagnostic stream
    exit,      \* process exit code, "running" until the process ended
    loc,       \* locals of the function being executed
    cluster,   \* the remote cluster: what was applied, the regcred secret
    dg,        \* SpecSub: the delegation under test and what was observed
    th,        \* SpecOnce: per goroutine, its call stack and results
    cell,      \* SpecOnce: per factory, the sync.Once cell
    setups,    \* SpecOnce: per factory, how often its function ran
    ncalls,    \* SpecOnce: top-level calls made so far
    pipe,      \* SpecPipe: the two commands of a command.Copy and its buffers
    ctx,       \* SpecCancel: the context given to run, "live" or "cancelled"
    rerun,     \* SpecRerun: which run this is, and what the first run left
    mock       \* SpecMock: the mock machine of the tests

vars == <<pc, stack, verbose, Trace, once, machines, calls, steps, files,
          tmpfs, deferred, stdout, stderr, exit, loc, cluster, dg, th, cell,
          setups, ncalls, pipe, ctx, rerun, mock>>

runVars == <<pc, stack, verbose, Trace, once, machines, calls, steps, files,
             tmpfs, deferred, stdout, stderr, exit, loc, cluster>>

auxVars == <<ctx, rerun, mock>>

onceVars == <<th, cell, setups, ncalls>>

-----------------------------------------------------------------------------
(* Program constants *)

host == "k8s.lesiw.dev"

autopatch == <<"#!/bin/sh", "apt-get -y dist-upgrade", "shutdown -r 0">>

autopatchCron ==
    <<"0 2 * * 6 root /usr/local/bin/autopatch >> /var/log/autopatch.log 2>&1", "\n">>

traefikConfig == <<"traefik.yml">>

postgresClusterCfg == <<"cluster.yml">>

issuerCfg == <<"issuer.yml">>

registryCfg == <<"registry.yml">>

cnpgURL ==
    "https://raw.githubusercontent.com/cloudnative-pg/cloudnative-pg/release-1.25/releases/cnpg-1.25.0.yaml"

certManagerURL ==
    "https://github.com/cert-manager/cert-manager/releases/download/v1.17.1/cert-manager.yaml"

k3sURL == "https://get.k3s.io"

autopatchPath == "/usr/local/bin/autopatch"

cronPath == "/etc/cron.d/autopatch"

reguser == "ll"

\* File modes are kept as their octal spelling.
ModeScript == "0755"

\* Mutant of ModeKey: the key is written with a mode others can read.
ModeKeyReadable == "0644"

ModeKey == "0600"

\* The mode fs.WriteFile uses when the context carries no fs.WithFileMode.
ModeDefault == "0644"

NoMode == "none"

-----------------------------------------------------------------------------
(* Errors: nil is the empty chain; fmt.Errorf("msg: %w", err) puts msg in  *)
(* front of the chain, the cause stays its last element.                   *)

nil == <<>>

\* Mutant of Errorf: the cause is formatted into the text, not wrapped.
ErrorfFlat(msg, err) == <<msg>>

Errorf(msg, err) == <<msg>> \o err

Cause(err) == err[Len(err)]

ErrExit == <<"exit status 1">>

ErrNotFound == <<"command not found">>

ErrIO == <<"i/o error">>

\* ctx.Err() of a cancelled context
ErrCanceled == <<"context canceled">>

\* command.NotFound(err)
NotFound(err) == err # nil /\ Cause(err) = "command not found"

\* What an external command can answer.
Outcomes == {"ok", "fail"}

LookupOutcomes == {"ok", "notfound", "fail"}

ErrOf(outcome) ==
    IF outcome = "ok" THEN nil
    ELSE IF outcome = "notfound" THEN ErrNotFound
    ELSE IF outcome = "cancelled" THEN ErrCanceled
    ELSE ErrExit

\* The error of a failed file write.
WriteErr(outcome) == IF outcome = "cancelled" THEN ErrCanceled ELSE ErrIO

\* getSpkez, getK8s: ctx := context.Background()
FactoryCtx == "live"

\* The steps use the context run was given.
StepCtx == ctx

\* What an invocation bound to context c can answer out of S: a command
\* blocked on a cancelled context is aborted; in a second run on the state
\* a successful run left, a command that can succeed does.
Results(c, S) ==
    IF c = "cancelled" THEN {"cancelled"}
    ELSE IF rerun.n = 2 /\ "ok" \in S THEN {"ok"}
    ELSE S

-----------------------------------------------------------------------------
(* Text helpers *)

RECURSIVE TrimNewlines(_)
\* command.Call returns the output without its trailing newline(s).
TrimNewlines(s) ==
    IF s # <<>> /\ s[Len(s)] = "\n"
    THEN TrimNewlines(SubSeq(s, 1, Len(s) - 1))
    ELSE s

RECURSIVE Join(_)
\* The string a sequence of text pieces spells.
Join(s) == IF s = <<>> THEN "" ELSE Head(s) \o Join(Tail(s))

\* Mutant of secretCfg: the name and the key are exchanged in the Sprintf.
secretCfgSwapped(name, key, value) ==
    <<"kind: Secret", "name: " \o key, "type: Opaque",
      name \o ": " \o Join(value)>>

\* fmt.Sprintf(secretCfg, name, key, value)
secretCfg(name, key, value) ==
    <<"kind: Secret", "name: " \o name, "type: Opaque",
      key \o ": " \o Join(value)>>

\* fmt.Sprintf(basicAuthCfg, name, user, password)
basicAuthCfg(name, user, password) ==
    <<"kind: Secret", "name: " \o name, "type: kubernetes.io/basic-auth",
      "username: " \o user, "password: " \o Join(password)>>

\* What `spkez get <name>` can print: the secret, with or without the
\* newline that ends the line.
RawSecret(name) == { <<"secret(" \o name \o ")">>,
                     <<"secret(" \o name \o ")", "\n">> }

-----------------------------------------------------------------------------
(* Machines.  A machine is the system machine, a command.Shell over an     *)
(* inner machine (with the commands registered by Handle), or a            *)
(* sub.Machine over an inner machine (with its prefix).                    *)

MachineIds == {"sys", "spkezSh", "spkez", "k8sSh", "ssh", "k8s", "ctl"}

Unbuilt == [kind |-> "unbuilt", inner |-> "sys", prefix |-> <<>>, handled |-> {}]

\* sys.Machine()
SysMachine == [kind |-> "sys", inner |-> "sys", prefix |-> <<>>, handled |-> {}]

\* command.Shell(inner) followed by sh.Handle(c, sh.Unshell()) for c in handled
Shell(inner, handled) ==
    [kind |-> "shell", inner |-> inner, prefix |-> <<>>, handled |-> handled]

\* sub.Machine(inner, prefix...)
SubMachine(inner, prefix) ==
    [kind |-> "sub", inner |-> inner, prefix |-> prefix, handled |-> {}]

\* What a sub.Machine with the given prefix hands to its inner machine when
\* argv (command name followed by arguments) is invoked on it.
SubInvoke(prefix, argv) == prefix \o argv

\* What a command.Shell hands to the machine it wraps: a command routed by
\* Unshell goes to the wrapped machine as it is.
ShInvoke(handled, argv) == argv

RECURSIVE Observed(_, _, _)
\* The argument vector the system machine observes when argv is invoked on
\* machine m of the table ms.
Observed(ms, m, argv) ==
    IF ms[m].kind = "sub"
    THEN Observed(ms, ms[m].inner, SubInvoke(ms[m].prefix, argv))
    ELSE IF ms[m].kind = "shell"
    THEN Observed(ms, ms[m].inner, ShInvoke(ms[m].handled, argv))
    ELSE argv

RECURSIVE Routed(_, _, _)
\* Whether every command.Shell that argv passes through on its way from
\* machine m to the system machine has the command name it receives
\* registered by Handle.
Routed(ms, m, argv) ==
    IF ms[m].kind = "sub"
    THEN Routed(ms, ms[m].inner, SubInvoke(ms[m].prefix, argv))
    ELSE IF ms[m].kind = "shell"
    THEN /\ argv # <<>>
         /\ argv[1] \in ms[m].handled
         /\ Routed(ms, ms[m].inner, ShInvoke(ms[m].handled, argv))
    ELSE ms[m].kind = "sys"

\* The prefix of the ssh delegate built by getK8s.
SshPrefix(absPath) == <<"ssh", "-i", absPath, host, "--">>

\* getK8s, first statement: sh := command.Shell(sys.Machine()), Handle("ssh").
K8sShell(ms) == [ms EXCEPT !["k8sSh"] = Shell("sys", {"ssh"})]

\* Mutant of K8sMachines: curl is not registered on the remote shell.
K8sMachinesNoCurl(ms, absPath) ==
    [ms EXCEPT !["ssh"] = SubMachine("k8sSh", <<"ssh", "-i", absPath, host, "--">>),
               !["k8s"] = Shell("ssh", {"sh", "kubectl"})]

\* Mutant of K8sMachines: the "--" that ends the ssh options is left out.
K8sMachinesNoDashes(ms, absPath) ==
    [ms EXCEPT !["ssh"] = SubMachine("k8sSh", <<"ssh", "-i", absPath, host>>),
               !["k8s"] = Shell("ssh", {"sh", "curl", "kubectl"})]

\* getK8s, last statements: the ssh delegate over sh, and the remote shell
\* k8s over the delegate with sh, curl and kubectl registered.
K8sMachines(ms, absPath) ==
    [ms EXCEPT !["ssh"] = SubMachine("k8sSh", SshPrefix(absPath)),
               !["k8s"] = Shell("ssh", {"sh", "curl", "kubectl"})]

\* getSpkez, first statements: sh with go and spkez registered.
SpkezShell(ms) == [ms EXCEPT !["spkezSh"] = Shell("sys", {"go", "spkez"})]

\* getSpkez, return statement: the spkez delegate over sh.
SpkezMachines(ms) == [ms EXCEPT !["spkez"] = SubMachine("spkezSh", <<"spkez">>)]

\* Mutant of CtlMachines: the delegate is built over the local shell sh
\* instead of the remote shell k8s.
CtlMachinesOverSh(ms) == [ms EXCEPT !["ctl"] = SubMachine("k8sSh", <<"kubectl">>)]

\* Mutant of CtlMachines: getCtl also registers kubectl-ctl on the remote
\* shell getK8s returned.
CtlMachinesHandling(ms) ==
    [ms EXCEPT !["ctl"] = SubMachine("k8s", <<"kubectl">>),
               !["k8s"].handled = @ \cup {"kubectl-ctl"}]

\* getCtl, return statement: the kubectl delegate over k8s.
CtlMachines(ms) == [ms EXCEPT !["ctl"] = SubMachine("k8s", <<"kubectl">>)]

\* The directories osfs.TempFS can create.
TempDirs == {"/tmp/fs1", "/tmp/fs2"}

\* fs.Abs(ctx, tmpfs, "key")
Abs(dir, name) == dir \o "/" \o name

-----------------------------------------------------------------------------
(* File systems *)

OtherPath == "/etc/motd"

Paths == {autopatchPath, cronPath, OtherPath}

NoFile == [exists |-> FALSE, data |-> <<>>, mode |-> NoMode]

File(data, mode) == [exists |-> TRUE, data |-> data, mode |-> mode]

\* What the remote host can hold before the run.
PriorFiles ==
    { f \in [Paths -> {NoFile, File(<<"old">>, ModeDefault), File(<<"old">>, ModeKey)}] :
        /\ f[OtherPath] = File(<<"old">>, ModeDefault)
        /\ f[cronPath] # File(<<"old">>, ModeDefault) }

\* WriteFile(ctx, path, data): the file holds data; its mode is the one
\* fs.WithFileMode put in ctx, the default mode when there is none.
WriteFile(fs, path, data, mode) ==
    [fs EXCEPT ![path] = File(data, IF mode = NoMode THEN ModeDefault ELSE mode)]

\* What a WriteFile that returned an error can leave behind.
FailedWrite(fs, path, mode) == {fs, WriteFile(fs, path, <<>>, mode)}

NoCluster == [regcred |-> FALSE, applied |-> {}]

\* What the cluster can hold before the run.
PriorClusters == {[regcred |-> b, applied |-> {}] : b \in BOOLEAN}

\* kubectl apply, and the k3s install script: the cluster holds what was
\* applied; applying it again changes nothing.
Apply(cl, what) == [cl EXCEPT !.applied = @ \cup {what}]

\* kubectl create secret docker-registry regcred
CreateRegcred(cl) == [cl EXCEPT !.regcred = TRUE]

\* What `kubectl get secret regcred` can answer.
CheckOutcomes(cl) ==
    IF cl.regcred THEN {"ok", "notfound", "fail"} ELSE {"notfound", "fail"}

\* What `kubectl create secret` can answer: it fails when the secret exists.
CreateOutcomes(cl) ==
    IF cl.regcred THEN {"fail"} ELSE {"ok", "fail"}

Rerun0 == [n |-> 1, files |-> <<>>, cluster |-> NoCluster]

-----------------------------------------------------------------------------
(* The mock machine of the tests (lesiw.io/command/mock): it records the    *)
(* invocations per command name and answers with the response registered   *)
(* for the name.                                                           *)

\* The command names the steps invoke on the mocks.
MockNames == {"apply", "get"}

\* No response registered.
MockNone == <<"none">>

\* mock.New()
MockNew ==
    [canned |-> [n \in MockNames |-> MockNone],
     calls |-> [n \in MockNames |-> <<>>],
     log |-> <<>>]

\* m.Return(name, out)
MockReturnOp(mk, name, out) == [mk EXCEPT !.canned[name] = out]

\* Mutant of MockRecord: only the last call of a name is kept.
MockRecordLast(mk, argv, stdin) ==
    [mk EXCEPT !.calls[argv[1]] = <<[Args |-> argv, Got |-> stdin]>>]

\* One invocation on the mock: the call is added to those of its name.
MockRecord(mk, argv, stdin) ==
    [mk EXCEPT !.calls[argv[1]] = Append(@, [Args |-> argv, Got |-> stdin])]

\* What the mock answers to a command of this name.
MockOutput(mk, name) ==
    IF mk.canned[name] = MockNone THEN <<>> ELSE mk.canned[name]

\* mock.CallsFor(m, name)
CallsFor(mk, name) == mk.calls[name]

TmpNone == [state |-> "none", dir |-> "", key |-> NoFile, removed |-> NoFile]

\* The function getK8s hands to defers.Add: fs.Close(tmpfs) removes the
\* temporary directory and the key in it.
CloseTmpfs(t) == [t EXCEPT !.state = "closed", !.key = NoFile, !.removed = t.key]

\* Mutant of RunDefers: the process ends without running what was registered.
RunDefersSkipped(d, t) == t

\* defers.Run / defers.Exit: run what was registered.
RunDefers(d, t) ==
    IF \E i \in 1..Len(d) : d[i] = "closeTmpfs" THEN CloseTmpfs(t) ELSE t

-----------------------------------------------------------------------------
(* The provisioning run: bookkeeping *)

Factories == {"spkez", "k8s", "ctl"}

\* Mutant of RunOrder: setupPostgres is called before setupTraefik.
RunOrderSwapped ==
    <<"installAutopatch", "updateK3s", "setupPostgres", "setupTraefik",
      "setupCertManager", "setupContainerRegistry">>

\* run: the steps in the order it calls them.
RunOrder ==
    <<"installAutopatch", "updateK3s", "setupTraefik", "setupPostgres",
      "setupCertManager", "setupContainerRegistry">>

\* run: the text it wraps a step's error in ("" for installAutopatch, whose
\* error it returns as it is).
RunMsg ==
    [installAutopatch |-> "",
     updateK3s |-> "failed to install or update k3s",
     setupTraefik |-> "failed to set up traefik",
     setupPostgres |-> "failed to set up postgres",
     setupCertManager |-> "failed to set up cert-manager",
     setupContainerRegistry |-> "failed to setup container registry"]

RunErr(step, err) == IF RunMsg[step] = "" THEN err ELSE Errorf(RunMsg[step], err)

\* The first position of each step: its first factory call.
Entry ==
    [installAutopatch |-> "ia_getK8s", updateK3s |-> "uk_getK8s",
     setupTraefik |-> "st_getCtl", setupPostgres |-> "sp_getCtl",
     setupCertManager |-> "cm_getCtl", setupContainerRegistry |-> "cr_getCtl"]

\* The factory calls of the steps: the factory called and where the step
\* goes on when the factory returned no error.
StepSite ==
    [ia_getK8s |-> [f |-> "k8s", next |-> "ia_script"],
     uk_getK8s |-> [f |-> "k8s", next |-> "uk_copy"],
     st_getCtl |-> [f |-> "ctl", next |-> "st_copy"],
     sp_getCtl |-> [f |-> "ctl", next |-> "sp_exec"],
     cm_getCtl |-> [f |-> "ctl", next |-> "cm_getSpkez"],
     cm_getSpkez |-> [f |-> "spkez", next |-> "cm_exec"],
     cr_getCtl |-> [f |-> "ctl", next |-> "cr_getSpkez"],
     cr_getSpkez |-> [f |-> "spkez", next |-> "cr_call"]]

\* The factory calls inside the factories.
BodySite == [k8s_getSpkez |-> "spkez", ctl_getK8s |-> "k8s"]

\* Where a factory's function starts.
Body == [spkez |-> "getSpkez", k8s |-> "getK8s", ctl |-> "ctl_getK8s"]

CalledAt(p) == IF p \in DOMAIN StepSite THEN StepSite[p].f ELSE BodySite[p]

\* Locals: sshkey of getK8s, r of the steps (regpass is r in
\* setupContainerRegistry), trace of setupContainerRegistry.
Loc0 == [sshkey |-> <<>>, r |-> <<>>, trace |-> "unset"]

\* The step in progress: the one entered last.
CurStep == steps[Len(steps)].step

Enter(step, tr) == [ev |-> "enter", step |-> step, err |-> nil, trace |-> tr]

Ret(step, err, tr) == [ev |-> "return", step |-> step, err |-> err, trace |-> tr]

\* One invocation as the machine it was issued on received it (argv, stdin)
\* and as the system machine observed it (base).
Inv(fn, m, op, argv, stdin, out, res, ms) ==
    [step |-> CurStep, fn |-> fn, m |-> m, op |-> op, argv |-> argv,
     base |-> Observed(ms, m, argv), stdin |-> stdin, out |-> out,
     res |-> res, trace |-> Trace, path |-> "", mode |-> NoMode,
     prior |-> NoFile, routed |-> Routed(ms, m, argv),
     ctxdone |-> ctx = "cancelled"]

\* One WriteFile on machine m: the commands it runs are the library's, the
\* system machine observes them behind the prefixes of m.  prior is the file
\* as the write found it.
InvWrite(fn, m, path, data, mode, res, ms) ==
    [step |-> CurStep, fn |-> fn, m |-> m, op |-> "WriteFile", argv |-> <<>>,
     base |-> Observed(ms, m, <<>>), stdin |-> data, out |-> <<>>,
     res |-> res, trace |-> Trace, path |-> path, mode |-> mode,
     prior |-> files[path], routed |-> Routed(ms, m, <<>>),
     ctxdone |-> ctx = "cancelled"]

\* main: what it prints to the diagnostic stream for the error of run.
Stderr(err) == IF err # nil THEN <<err>> ELSE <<>>

\* Mutant of ExitCode: main returns without defers.Exit(1).
ExitCodeZero(err) == "0"

\* main: the exit code for the error of run (defers.Exit(1), or the return
\* from main).
ExitCode(err) == IF err # nil THEN "1" ELSE "0"

\* A step returned err: run wraps it and returns, main prints it and leaves
\* through defers.Exit(1).
Fail(step, err, tr) ==
    /\ steps' = Append(steps, Ret(step, err, tr))
    /\ stderr' = stderr \o Stderr(RunErr(step, err))
    /\ tmpfs' = RunDefers(deferred, tmpfs)
    /\ deferred' = <<>>
    /\ exit' = ExitCode(RunErr(step, err))
    /\ pc' = "exit"

\* A step returned nil: run goes on with the next step; after the last one
\* run returns nil and main returns through the deferred defers.Run().
Done(step, tr) ==
    LET i == CHOOSE k \in 1..Len(RunOrder) : RunOrder[k] = step IN
    IF i < Len(RunOrder)
    THEN /\ steps' = steps \o <<Ret(step, nil, tr), Enter(RunOrder[i + 1], tr)>>
         /\ pc' = Entry[RunOrder[i + 1]]
         /\ UNCHANGED <<stderr, tmpfs, deferred, exit>>
    ELSE /\ steps' = Append(steps, Ret(step, nil, tr))
         /\ stderr' = stderr \o Stderr(nil)
         /\ tmpfs' = RunDefers(deferred, tmpfs)
         /\ deferred' = <<>>
         /\ exit' = ExitCode(nil)
         /\ pc' = "exit"

\* A factory's function returned err (nil: it returned a machine):
\* OnceValues stores the result and the caller goes on.
Return(f, err) ==
    /\ once' = [once EXCEPT ![f] = [done |-> TRUE, err |-> err]]
    /\ pc' = Head(stack)
    /\ stack' = Tail(stack)

-----------------------------------------------------------------------------
(* main, the memoized factories *)

\* main up to the call of run, and run up to its first step.
Main ==
    /\ pc = "main"
    /\ Trace' = IF verbose THEN "ShTrace" ELSE Trace
    /\ steps' = Append(steps, Enter(RunOrder[1], Trace'))
    /\ pc' = Entry[RunOrder[1]]
    /\ UNCHANGED <<stack, verbose, once, machines, calls, files, tmpfs,
                   deferred, stdout, stderr, exit, loc>>

\* A call of a factory whose function has not run yet: OnceValues runs it.
FactoryCall ==
    /\ pc \in DOMAIN StepSite \cup DOMAIN BodySite
    /\ ~once[CalledAt(pc)].done
    /\ stack' = <<pc>> \o stack
    /\ pc' = Body[CalledAt(pc)]
    /\ UNCHANGED <<verbose, Trace, once, machines, calls, steps, files, tmpfs,
                   deferred, stdout, stderr, exit, loc>>

\* A call of a factory from a step once its result is stored: the step goes
\* on with the machine, or returns the stored error as it is.
StepFactoryResult ==
    /\ pc \in DOMAIN StepSite
    /\ once[StepSite[pc].f].done
    /\ IF once[StepSite[pc].f].err = nil
       THEN /\ pc' = StepSite[pc].next
            /\ UNCHANGED <<steps, stderr, tmpfs, deferred, exit>>
       ELSE Fail(CurStep, once[StepSite[pc].f].err, Trace)
    /\ UNCHANGED <<stack, verbose, Trace, once, machines, calls, files,
                   stdout, loc>>

\* Mutant of NeedsInstall: any failed lookup leads to the install.
NeedsInstallAnyError(err) == err # nil

\* getSpkez: `if command.NotFound(err)` after the lookup.
NeedsInstall(err) == NotFound(err)

\* getSpkez: the shell, `spkez --version`, and what follows from its result.
getSpkez ==
    /\ pc = "getSpkez"
    /\ \E o \in Results(FactoryCtx, LookupOutcomes) :
         LET ms == SpkezShell(machines)
             err == ErrOf(o)
         IN  /\ calls' = Append(calls, Inv("getSpkez", "spkezSh", "Call",
                                           <<"spkez", "--version">>, <<>>, <<>>, o, ms))
             /\ IF NeedsInstall(err)
                THEN /\ machines' = ms
                     /\ stdout' = Append(stdout, "Installing spkez...")
                     /\ pc' = "getSpkez_install"
                     /\ UNCHANGED <<once, stack>>
                ELSE IF err # nil
                THEN /\ machines' = ms
                     /\ Return("spkez", Errorf("error checking spkez", err))
                     /\ UNCHANGED stdout
                ELSE /\ machines' = SpkezMachines(ms)
                     /\ Return("spkez", nil)
                     /\ UNCHANGED stdout
    /\ UNCHANGED <<verbose, Trace, steps, files, tmpfs, deferred, stderr, exit, loc>>

\* getSpkez: `go install lesiw.io/spkez@latest` after a not-found lookup.
getSpkezInstall ==
    /\ pc = "getSpkez_install"
    /\ \E o \in Results(FactoryCtx, Outcomes) :
         /\ calls' = Append(calls, Inv("getSpkez", "spkezSh", "Exec",
                                       <<"go", "install", "lesiw.io/spkez@latest">>,
                                       <<>>, <<>>, o, machines))
         /\ IF ErrOf(o) # nil
            THEN /\ Return("spkez", Errorf("could not install spkez", ErrOf(o)))
                 /\ UNCHANGED machines
            ELSE /\ machines' = SpkezMachines(machines)
                 /\ Return("spkez", nil)
    /\ UNCHANGED <<verbose, Trace, steps, files, tmpfs, deferred, stdout,
                   stderr, exit, loc>>

\* getK8s: the local shell with ssh registered.
getK8s ==
    /\ pc = "getK8s"
    /\ machines' = K8sShell(machines)
    /\ pc' = "k8s_getSpkez"
    /\ UNCHANGED <<stack, verbose, Trace, once, calls, steps, files, tmpfs,
                   deferred, stdout, stderr, exit, loc>>

\* getK8s: the result of getSpkez(); its error is returned as it is.
getK8sSpkez ==
    /\ pc = "k8s_getSpkez"
    /\ once["spkez"].done
    /\ IF once["spkez"].err # nil
       THEN Return("k8s", once["spkez"].err)
       ELSE /\ pc' = "k8s_call"
            /\ UNCHANGED <<once, stack>>
    /\ UNCHANGED <<verbose, Trace, machines, calls, steps, files, tmpfs,
                   deferred, stdout, stderr, exit, loc>>

\* getK8s: `spkez get infra/ssh`; on success the temporary file system is
\* created and its removal registered with defers.Add.
getK8sKey ==
    /\ pc = "k8s_call"
    /\ \E o \in Results(FactoryCtx, Outcomes), raw \in RawSecret("infra/ssh"), dir \in TempDirs :
         LET out == IF o = "ok" THEN raw ELSE <<>> IN
         /\ calls' = Append(calls, Inv("getK8s", "spkez", "Call",
                                       <<"get", "infra/ssh">>, <<>>, out, o, machines))
         /\ IF ErrOf(o) # nil
            THEN /\ Return("k8s", Errorf("could not get ssh key", ErrOf(o)))
                 /\ UNCHANGED <<loc, tmpfs, deferred>>
            ELSE /\ loc' = [loc EXCEPT !.sshkey = TrimNewlines(out)]
                 /\ tmpfs' = [state |-> "open", dir |-> dir, key |-> NoFile,
                                removed |-> NoFile]
                 /\ deferred' = Append(deferred, "closeTmpfs")
                 /\ pc' = "k8s_write"
                 /\ UNCHANGED <<once, stack>>
    /\ UNCHANGED <<verbose, Trace, machines, steps, files, stdout, stderr, exit>>

\* Mutant of WriteKeyErr: the error of the write is not looked at.
WriteKeyErrIgnored(o) == nil

\* getK8s: what it returns for the outcome of fs.WriteFile.
WriteKeyErr(o) ==
    IF ErrOf(o) # nil THEN Errorf("could not write ssh key", WriteErr(o)) ELSE nil

\* getK8s: fs.WriteFile(fs.WithFileMode(ctx, 0600), tmpfs, "key", ...), its
\* first half: the file is created, empty, with the mode of the context; a
\* failure ends the write, and `if err != nil` returns the error.
getK8sWrite ==
    /\ pc = "k8s_write"
    /\ \E o \in Results(FactoryCtx, Outcomes) :
         IF o = "ok"
         THEN /\ tmpfs' = [tmpfs EXCEPT !.key = File(<<>>, ModeKey)]
              /\ pc' = "k8s_data"
              /\ UNCHANGED <<once, stack>>
         ELSE /\ UNCHANGED tmpfs
              /\ IF WriteKeyErr(o) # nil
                 THEN Return("k8s", WriteKeyErr(o))
                 ELSE pc' = "k8s_abs" /\ UNCHANGED <<once, stack>>
    /\ UNCHANGED <<verbose, Trace, machines, calls, steps, files, deferred,
                   stdout, stderr, exit, loc>>

\* What a write of data that returned an error can have put in the file.
PartialData(data) == {<<>>, SubSeq(data, 1, Len(data) - 1)}

\* getK8s: the second half of the WriteFile: the key and its newline are
\* written to the file created; `if err != nil` returns the error.
getK8sWriteData ==
    /\ pc = "k8s_data"
    /\ \E o \in Results(FactoryCtx, Outcomes) :
         IF o = "ok"
         THEN /\ tmpfs' = [tmpfs EXCEPT !.key.data = loc.sshkey \o <<"\n">>]
              /\ pc' = "k8s_abs"
              /\ UNCHANGED <<once, stack>>
         ELSE /\ \E d \in PartialData(loc.sshkey \o <<"\n">>) :
                   tmpfs' = [tmpfs EXCEPT !.key.data = d]
              /\ IF WriteKeyErr(o) # nil
                 THEN Return("k8s", WriteKeyErr(o))
                 ELSE pc' = "k8s_abs" /\ UNCHANGED <<once, stack>>
    /\ UNCHANGED <<verbose, Trace, machines, calls, steps, files, deferred,
                   stdout, stderr, exit, loc>>

\* getK8s: the absolute path of the key, the ssh delegate and the remote shell.
getK8sMachine ==
    /\ pc = "k8s_abs"
    /\ \E o \in Results(FactoryCtx, Outcomes) :
         IF o = "ok"
         THEN /\ machines' = K8sMachines(machines, Abs(tmpfs.dir, "key"))
              /\ Return("k8s", nil)
         ELSE /\ Return("k8s", Errorf("could not get absolute path", ErrIO))
              /\ UNCHANGED machines
    /\ UNCHANGED <<verbose, Trace, calls, steps, files, tmpfs, deferred,
                   stdout, stderr, exit, loc>>

\* getCtl: the result of getK8s(), and the kubectl delegate over it.
getCtl ==
    /\ pc = "ctl_getK8s"
    /\ once["k8s"].done
    /\ IF once["k8s"].err # nil
       THEN /\ Return("ctl", once["k8s"].err)
            /\ UNCHANGED machines
       ELSE /\ machines' = CtlMachines(machines)
            /\ Return("ctl", nil)
    /\ UNCHANGED <<verbose, Trace, calls, steps, files, tmpfs, deferred,
                   stdout, stderr, exit, loc>>

-----------------------------------------------------------------------------
(* The provisioning steps *)

Goto(p) ==
    /\ pc' = p
    /\ UNCHANGED <<steps, stderr, tmpfs, deferred, exit>>

\* command.Copy(dst, src): the error of the pipe from the errors of its two
\* ends (nil for an end that is a plain reader).
CopyErr(srcErr, dstErr) == IF srcErr # nil THEN srcErr ELSE dstErr

\* Mutant of AutopatchWrites: the script is written without fs.WithFileMode.
AutopatchWritesNoMode ==
    <<[path |-> autopatchPath, data |-> autopatch, mode |-> NoMode,
       msg |-> "could not install autopatch"],
      [path |-> cronPath, data |-> autopatchCron, mode |-> NoMode,
       msg |-> "could not install autopatch cron job"]>>

\* Mutant of AutopatchWrites: the cron file is written with the context of
\* the script write, fs.WithFileMode(ctx, 0755).
AutopatchWritesModeCarried ==
    <<[path |-> autopatchPath, data |-> autopatch, mode |-> ModeScript,
       msg |-> "could not install autopatch"],
      [path |-> cronPath, data |-> autopatchCron, mode |-> ModeScript,
       msg |-> "could not install autopatch cron job"]>>

\* installAutopatch: the two files it writes, in the order it writes them.
AutopatchWrites ==
    <<[path |-> autopatchPath, data |-> autopatch, mode |-> ModeScript,
       msg |-> "could not install autopatch"],
      [path |-> cronPath, data |-> autopatchCron, mode |-> NoMode,
       msg |-> "could not install autopatch cron job"]>>

\* One k8s.WriteFile of installAutopatch.
AutopatchWrite(w, next) ==
    \E o \in Results(StepCtx, Outcomes) :
      /\ calls' = Append(calls, InvWrite("installAutopatch", "k8s", w.path,
                                         w.data, w.mode, o, machines))
      /\ IF o = "ok"
         THEN /\ files' = WriteFile(files, w.path, w.data, w.mode)
              /\ IF next = "return"
                 THEN Done("installAutopatch", Trace)
                 ELSE Goto(next)
         ELSE /\ files' \in FailedWrite(files, w.path, w.mode)
              /\ Fail("installAutopatch", Errorf(w.msg, WriteErr(o)), Trace)

installAutopatch ==
    /\ \/ pc = "ia_script" /\ AutopatchWrite(AutopatchWrites[1], "ia_cron")
       \/ pc = "ia_cron" /\ AutopatchWrite(AutopatchWrites[2], "return")
    /\ UNCHANGED <<stack, verbose, Trace, once, machines, stdout, loc>>

\* What curl can have written to the pipe when it ended.
ProducerOut(o) ==
    IF o = "ok" THEN {<<"k3s install script">>} ELSE {<<>>, <<"k3s inst">>}

\* Mutant of updateK3sPipe: the two ends are exchanged.
updateK3sPipeSwapped ==
    [dst |-> <<"curl", "-sfL", k3sURL>>, src |-> <<"sh", "-s", "-">>]

\* updateK3s: the two ends of its command.Copy.
updateK3sPipe ==
    [dst |-> <<"sh", "-s", "-">>, src |-> <<"curl", "-sfL", k3sURL>>]

\* Mutant of updateK3sErr: the error of the Copy is dropped.
updateK3sErrDropped(err) == nil

\* updateK3s: what it returns for the error of the Copy.
updateK3sErr(err) ==
    IF err # nil THEN Errorf("could not update k3s", err) ELSE nil

updateK3s ==
    /\ pc = "uk_copy"
    /\ \E so \in Results(StepCtx, Outcomes), do \in Results(StepCtx, Outcomes) :
         \E out \in ProducerOut(so) :
           LET src == Inv("updateK3s", "k8s", "Copy.src", updateK3sPipe.src,
                          <<>>, out, so, machines)
               dst == Inv("updateK3s", "k8s", "Copy.dst", updateK3sPipe.dst,
                          out, <<>>, do, machines)
               err == updateK3sErr(CopyErr(ErrOf(so), ErrOf(do)))
           IN  /\ calls' = calls \o <<src, dst>>
               /\ cluster' = IF do = "ok" THEN Apply(cluster, out) ELSE cluster
               /\ IF err # nil
                  THEN Fail("updateK3s", err, Trace)
                  ELSE Done("updateK3s", Trace)
    /\ UNCHANGED <<stack, verbose, Trace, once, machines, files, stdout, loc>>

\* command.Copy(m.Command(ctx, argv...), strings.NewReader(stdin)) followed
\* by the step's error check.
CopyTo(fn, m, argv, stdin, msg, next) ==
    \E o \in Results(StepCtx, Outcomes) :
      /\ calls' = Append(calls, Inv(fn, m, "Copy.dst", argv, stdin, <<>>, o, machines))
      /\ cluster' = IF o = "ok" THEN Apply(cluster, stdin) ELSE cluster
      /\ IF CopyErr(nil, ErrOf(o)) # nil
         THEN Fail(fn, Errorf(msg, CopyErr(nil, ErrOf(o))), Trace)
         ELSE IF next = "return" THEN Done(fn, Trace) ELSE Goto(next)

\* Mutant of ExecOn: a failed command is issued once more before the step
\* gives up.
ExecOnRetry(fn, m, argv, msg, next) ==
    \E o \in Results(StepCtx, Outcomes) :
      /\ calls' = Append(calls, Inv(fn, m, "Exec", argv, <<>>, <<>>, o, machines))
      /\ cluster' = IF o = "ok" THEN Apply(cluster, argv) ELSE cluster
      /\ IF ErrOf(o) # nil
         THEN IF calls # <<>> /\ calls[Len(calls)].argv = argv
              THEN Fail(fn, Errorf(msg, ErrOf(o)), Trace)
              ELSE Goto(pc)
         ELSE IF next = "return" THEN Done(fn, Trace) ELSE Goto(next)

\* command.Exec(ctx, m, argv...) followed by the step's error check.
ExecOn(fn, m, argv, msg, next) ==
    \E o \in Results(StepCtx, Outcomes) :
      /\ calls' = Append(calls, Inv(fn, m, "Exec", argv, <<>>, <<>>, o, machines))
      /\ cluster' = IF o = "ok" THEN Apply(cluster, argv) ELSE cluster
      /\ IF ErrOf(o) # nil
         THEN Fail(fn, Errorf(msg, ErrOf(o)), Trace)
         ELSE IF next = "return" THEN Done(fn, Trace) ELSE Goto(next)

\* r, err := command.Call(ctx, spkez, "get", name) followed by the step's
\* error check.
CallSpkez(fn, name, msg, next) ==
    \E o \in Results(StepCtx, Outcomes), raw \in RawSecret(name) :
      LET out == IF o = "ok" THEN raw ELSE <<>> IN
      /\ UNCHANGED cluster
      /\ calls' = Append(calls, Inv(fn, "spkez", "Call", <<"get", name>>,
                                    <<>>, out, o, machines))
      /\ IF ErrOf(o) # nil
         THEN /\ Fail(fn, Errorf(msg, ErrOf(o)), Trace)
              /\ UNCHANGED loc
         ELSE /\ loc' = [loc EXCEPT !.r = TrimNewlines(out)]
              /\ Goto(next)

setupTraefik ==
    /\ pc = "st_copy"
    /\ CopyTo("setupTraefik", "ctl", <<"apply", "-f", "-">>, traefikConfig,
              "could not configure traefik", "return")
    /\ UNCHANGED <<stack, verbose, Trace, once, machines, files, stdout, loc>>

\* Mutant of cnpgApplyArgs: a plain client-side apply.
cnpgApplyArgsPlain == <<"apply", "-f", cnpgURL>>

\* setupPostgres: the arguments of the CNPG install.
cnpgApplyArgs == <<"apply", "--server-side", "--force-conflicts", "-f", cnpgURL>>

setupPostgres ==
    /\ \/ /\ pc = "sp_exec"
          /\ ExecOn("setupPostgres", "ctl", cnpgApplyArgs,
                    "could not install CNPG", "sp_copy")
       \/ /\ pc = "sp_copy"
          /\ CopyTo("setupPostgres", "ctl", <<"apply", "-f", "-">>,
                    postgresClusterCfg, "could not install PG cluster", "return")
    /\ UNCHANGED <<stack, verbose, Trace, once, machines, files, stdout, loc>>

setupCertManager ==
    \/ /\ pc = "cm_exec"
       /\ ExecOn("setupCertManager", "ctl", <<"apply", "-f", certManagerURL>>,
                 "could not install cert-manager", "cm_call")
       /\ UNCHANGED <<stack, verbose, Trace, once, machines, files, stdout, loc>>
    \/ /\ pc = "cm_call"
       /\ CallSpkez("setupCertManager", "k8s/cert-manager/cloudflare",
                    "could not get cloudflare API key", "cm_secret")
       /\ UNCHANGED <<stack, verbose, Trace, once, machines, files, stdout>>
    \/ /\ pc = "cm_secret"
       /\ CopyTo("setupCertManager", "ctl", <<"apply", "-f", "-">>,
                 secretCfg("cert-manager-cloudflare-token", "api-token", loc.r),
                 "could not store cloudflare secret", "cm_issuer")
       /\ UNCHANGED <<stack, verbose, Trace, once, machines, files, stdout, loc>>
    \/ /\ pc = "cm_issuer"
       /\ CopyTo("setupCertManager", "ctl", <<"apply", "-f", "-">>, issuerCfg,
                 "could not create cloudflare issuer", "return")
       /\ UNCHANGED <<stack, verbose, Trace, once, machines, files, stdout, loc>>

\* setupContainerRegistry: the arguments of the guarded create.
createSecretArgs(user, pass) ==
    <<"create", "secret", "docker-registry", "regcred",
      "--docker-server=ctr.lesiw.dev",
      "--docker-username=" \o user,
      "--docker-password=" \o Join(pass)>>

\* Mutant of NeedsCreate: the secret is created whatever the check says.
NeedsCreateAlways(err) == TRUE

\* Mutant of NeedsCreate: only a not-found check leads to the create.
NeedsCreateIfNotFound(err) == NotFound(err)

\* setupContainerRegistry: `if err != nil` after the existence check.
NeedsCreate(err) == err # nil

\* Mutant of HideTrace: the trace sink is left as it is for the create.
HideTraceMissing(cur) == cur

\* setupContainerRegistry: command.Trace = io.Discard before the create.
HideTrace(cur) == "Discard"

\* setupContainerRegistry: command.Trace = trace after a successful create.
AfterCreate(cur, saved) == saved

\* Mutant of DeferRestore: no restore is deferred.
DeferRestoreMissing(cur, saved) == cur

\* setupContainerRegistry: the deferred func() { command.Trace = trace }.
DeferRestore(cur, saved) == saved

setupContainerRegistry ==
    \/ /\ pc = "cr_call"
       /\ CallSpkez("setupContainerRegistry", "ctr.lesiw.dev/auth",
                    "could not get registry auth secret", "cr_auth")
       /\ UNCHANGED <<stack, verbose, Trace, once, machines, files, stdout>>
    \/ /\ pc = "cr_auth"
       /\ CopyTo("setupContainerRegistry", "ctl", <<"apply", "-f", "-">>,
                 basicAuthCfg("registry-auth-secret", reguser, loc.r),
                 "could not store registry auth secret", "cr_registry")
       /\ UNCHANGED <<stack, verbose, Trace, once, machines, files, stdout, loc>>
    \/ /\ pc = "cr_registry"
       /\ CopyTo("setupContainerRegistry", "ctl", <<"apply", "-f", "-">>,
                 registryCfg, "could not install registry", "cr_check")
       /\ UNCHANGED <<stack, verbose, Trace, once, machines, files, stdout, loc>>
    \/ /\ pc = "cr_check"
       /\ UNCHANGED cluster
       /\ \E o \in Results(StepCtx, CheckOutcomes(cluster)) :
            /\ calls' = Append(calls, Inv("setupContainerRegistry", "ctl", "Exec",
                                          <<"get", "secret", "regcred">>,
                                          <<>>, <<>>, o, machines))
            /\ IF NeedsCreate(ErrOf(o))
               THEN /\ loc' = [loc EXCEPT !.trace = Trace]
                    /\ Trace' = HideTrace(Trace)
                    /\ Goto("cr_create")
               ELSE /\ Done("setupContainerRegistry", Trace)
                    /\ UNCHANGED <<Trace, loc>>
       /\ UNCHANGED <<stack, verbose, once, machines, files, stdout>>
    \/ /\ pc = "cr_create"
       /\ \E o \in Results(StepCtx, CreateOutcomes(cluster)) :
            /\ cluster' = IF o = "ok" THEN CreateRegcred(cluster) ELSE cluster
            /\ calls' = Append(calls, Inv("setupContainerRegistry", "ctl", "Exec",
                                          createSecretArgs(reguser, loc.r),
                                          <<>>, <<>>, o, machines))
            /\ IF ErrOf(o) # nil
               THEN /\ Trace' = DeferRestore(Trace, loc.trace)
                    /\ Fail("setupContainerRegistry",
                            Errorf("could not store registry secret", ErrOf(o)),
                            Trace')
               ELSE /\ Trace' = DeferRestore(AfterCreate(Trace, loc.trace), loc.trace)
                    /\ Done("setupContainerRegistry", Trace')
       /\ UNCHANGED <<stack, verbose, once, machines, files, stdout, loc>>

-----------------------------------------------------------------------------
(* The state of the parts a specification leaves alone *)

DgIdle ==
    [phase |-> "idle", p1 |-> <<>>, p2 |-> <<>>, key |-> "", argv |-> <<>>,
     stdin |-> <<>>, d1 |-> <<>>, d2 |-> <<>>, d12 |-> <<>>, ssh |-> <<>>,
     k8s |-> <<>>, ctl |-> <<>>]

PipeIdle ==
    [phase |-> "idle", cap |-> 0, total |-> 0, sent |-> 0, out |-> <<>>,
     inp |-> <<>>, recv |-> <<>>, pdone |-> FALSE, started |-> FALSE,
     closed |-> FALSE, cdone |-> FALSE]

OnceIdle ==
    /\ th = <<>>
    /\ cell = <<>>
    /\ setups = <<>>
    /\ ncalls = 0

AuxIdle ==
    /\ ctx = "live"
    /\ rerun = Rerun0
    /\ mock = MockNew

RunIdle ==
    /\ cluster = NoCluster
    /\ pc = "idle"
    /\ stack = <<>>
    /\ verbose = FALSE
    /\ Trace = "Discard"
    /\ once = [f \in Factories |-> [done |-> FALSE, err |-> nil]]
    /\ machines = [m \in MachineIds |-> IF m = "sys" THEN SysMachine ELSE Unbuilt]
    /\ calls = <<>>
    /\ steps = <<>>
    /\ files = [p \in Paths |-> NoFile]
    /\ tmpfs = TmpNone
    /\ deferred = <<>>
    /\ stdout = <<>>
    /\ stderr = <<>>
    /\ exit = "running"
    /\ loc = Loc0

-----------------------------------------------------------------------------
(* Spec: one provisioning run *)

Init ==
    /\ pc = "main"
    /\ stack = <<>>
    /\ verbose \in BOOLEAN
    /\ Trace = "Discard"
    /\ once = [f \in Factories |-> [done |-> FALSE, err |-> nil]]
    /\ machines = [m \in MachineIds |-> IF m = "sys" THEN SysMachine ELSE Unbuilt]
    /\ calls = <<>>
    /\ steps = <<>>
    /\ files \in PriorFiles
    /\ tmpfs = TmpNone
    /\ deferred = <<>>
    /\ stdout = <<>>
    /\ stderr = <<>>
    /\ exit = "running"
    /\ loc = Loc0
    /\ cluster \in PriorClusters
    /\ dg = DgIdle
    /\ OnceIdle
    /\ pipe = PipeIdle
    /\ AuxIdle

\* The run leaves the variables of the other specifications alone.
Run(A) == A /\ UNCHANGED <<dg, th, cell, setups, ncalls, pipe>> /\ UNCHANGED auxVars

\* A step of main or of a factory: the cluster is not involved.
RunLocal(A) == Run(A) /\ UNCHANGED cluster

Next ==
    \/ RunLocal(Main)
    \/ RunLocal(FactoryCall)
    \/ RunLocal(StepFactoryResult)
    \/ RunLocal(getSpkez)
    \/ RunLocal(getSpkezInstall)
    \/ RunLocal(getK8s)
    \/ RunLocal(getK8sSpkez)
    \/ RunLocal(getK8sKey)
    \/ RunLocal(getK8sWrite)
    \/ RunLocal(getK8sWriteData)
    \/ RunLocal(getK8sMachine)
    \/ RunLocal(getCtl)
    \/ RunLocal(installAutopatch)
    \/ Run(updateK3s)
    \/ Run(setupTraefik)
    \/ Run(setupPostgres)
    \/ Run(setupCertManager)
    \/ Run(setupContainerRegistry)

Spec == Init /\ [][Next]_vars

-----------------------------------------------------------------------------
(* SpecCancel: the run with a context that can be cancelled at any moment *)

\* The context run was given is cancelled while the run is at pc: the
\* invocation at pc is the one that is blocked.
Cancel ==
    /\ pc # "exit"
    /\ ctx = "live"
    /\ ctx' = "cancelled"
    /\ UNCHANGED <<runVars, dg, onceVars, pipe, rerun, mock>>

NextCancel == Next \/ Cancel

SpecCancel == Init /\ [][NextCancel]_vars

-----------------------------------------------------------------------------
(* SpecRerun: a second run of the program on what a successful run left *)

\* The operator starts the program again after it exited with code 0: a
\* new process, the same remote host and cluster.
Rerun ==
    /\ pc = "exit"
    /\ exit = "0"
    /\ rerun.n = 1
    /\ rerun' = [n |-> 2, files |-> files, cluster |-> cluster]
    /\ pc' = "main"
    /\ stack' = <<>>
    /\ Trace' = "Discard"
    /\ once' = [f \in Factories |-> [done |-> FALSE, err |-> nil]]
    /\ machines' = [m \in MachineIds |-> IF m = "sys" THEN SysMachine ELSE Unbuilt]
    /\ calls' = <<>>
    /\ steps' = <<>>
    /\ tmpfs' = TmpNone
    /\ deferred' = <<>>
    /\ stdout' = <<>>
    /\ stderr' = <<>>
    /\ exit' = "running"
    /\ loc' = Loc0
    /\ UNCHANGED <<verbose, files, cluster, dg, onceVars, pipe, ctx, mock>>

NextRerun == Next \/ Rerun

SpecRerun == Init /\ [][NextRerun]_vars

-----------------------------------------------------------------------------
(* SpecSub: delegation as a function of prefix, command and arguments *)

\* Longest prefix and longest argument list tried.
MaxPrefix == 2

MaxArgs == 2

Tokens == {"a", "b", "--"}

RECURSIVE SeqsUpTo(_, _)
\* The sequences over S of length 0..n.
SeqsUpTo(S, n) ==
    IF n = 0 THEN {<<>>}
    ELSE LET shorter == SeqsUpTo(S, n - 1)
         IN  shorter \cup {Append(q, x) : q \in shorter, x \in S}

Prefixes == SeqsUpTo(Tokens, MaxPrefix) \ {<<>>}

Argvs == {<<c>> \o a : c \in {"apply", "get"}, a \in SeqsUpTo({"-f", "-"}, MaxArgs)}

Stdins == {<<>>, <<"manifest">>}

\* Delegates over the system machine M = "sys": d1 = delegate(M, P1),
\* d2 = delegate(d1, P2), d12 = delegate(M, P1 + P2).
Delegates(p1, p2) ==
    [m \in {"sys", "d1", "d2", "d12"} |->
        IF m = "d1" THEN SubMachine("sys", p1)
        ELSE IF m = "d2" THEN SubMachine("d1", p2)
        ELSE IF m = "d12" THEN SubMachine("sys", p1 \o p2)
        ELSE SysMachine]

\* The machines of the program once getSpkez, getK8s and getCtl returned.
ProgramMachines(absPath) ==
    CtlMachines(K8sMachines(K8sShell(SpkezMachines(SpkezShell(
        [m \in MachineIds |-> IF m = "sys" THEN SysMachine ELSE Unbuilt]))),
        absPath))

\* What the system machine observes for one invocation on machine m: one
\* invocation, with the stdin of the original.
Forward(ms, m, inv) ==
    <<[argv |-> Observed(ms, m, inv.argv), stdin |-> inv.stdin]>>

SubInit ==
    /\ dg = DgIdle
    /\ RunIdle
    /\ OnceIdle
    /\ pipe = PipeIdle
    /\ AuxIdle

\* A prefix pair and a key path are chosen and the delegates built.
SubBuild ==
    /\ dg.phase = "idle"
    /\ \E p1 \in Prefixes, p2 \in Prefixes, dir \in TempDirs :
         dg' = [dg EXCEPT !.phase = "built", !.p1 = p1, !.p2 = p2,
                          !.key = Abs(dir, "key")]
    /\ UNCHANGED runVars
    /\ UNCHANGED onceVars
    /\ UNCHANGED pipe
    /\ UNCHANGED auxVars

\* One invocation is issued on each delegate.
SubCall ==
    /\ dg.phase = "built"
    /\ \E argv \in Argvs, stdin \in Stdins :
         LET inv == [argv |-> argv, stdin |-> stdin]
             ds == Delegates(dg.p1, dg.p2)
             ps == ProgramMachines(dg.key)
         IN  dg' = [dg EXCEPT !.phase = "invoked", !.argv = argv, !.stdin = stdin,
                              !.d1 = Forward(ds, "d1", inv),
                              !.d2 = Forward(ds, "d2", inv),
                              !.d12 = Forward(ds, "d12", inv),
                              !.ssh = Forward(ps, "ssh", inv),
                              !.k8s = Forward(ps, "k8s", inv),
                              !.ctl = Forward(ps, "ctl", inv)]
    /\ UNCHANGED runVars
    /\ UNCHANGED onceVars
    /\ UNCHANGED pipe
    /\ UNCHANGED auxVars

SubNext == SubBuild \/ SubCall

SpecSub == SubInit /\ [][SubNext]_vars

-----------------------------------------------------------------------------
(* SpecOnce: goroutines calling the memoized factories concurrently.       *)
(* sync.OnceValues(f) returns a function that runs once.Do(g) and then     *)
(* returns the stored results; once.Do reads the done flag, and when it    *)
(* is not set takes the mutex, reads the flag again, runs g and sets the   *)
(* flag before it releases the mutex.                                      *)

NumGoroutines == 2

\* Calls the goroutines make from their top level, all together.
MaxCalls == 3

Goroutines == 1..NumGoroutines

\* The factory a factory's function calls first.
Dep == [spkez |-> "none", k8s |-> "spkez", ctl |-> "k8s"]

\* The errors a factory's function can return from its own setup.
SetupErrs(f) ==
    IF f = "spkez"
    THEN {Errorf("error checking spkez", ErrExit),
          Errorf("could not install spkez", ErrExit)}
    ELSE IF f = "k8s"
    THEN {Errorf("could not get ssh key", ErrExit),
          Errorf("could not write ssh key", ErrIO)}
    ELSE {}

Cell0 == [done |-> FALSE, mu |-> 0, valid |-> FALSE, inst |-> 0, err |-> nil]

NoResult == [f |-> "none", inst |-> 0, err |-> nil]

Frame(f) == [f |-> f, pc |-> "load", slow |-> FALSE, r |-> NoResult]

Top(g) == Head(th[g].stack)

\* The goroutine's top frame moves to position p.
At(g, p) == [th EXCEPT ![g].stack = <<[Top(g) EXCEPT !.pc = p]>> \o Tail(th[g].stack)]

OnceInit ==
    /\ th = [g \in Goroutines |-> [stack |-> <<>>, got |-> {}]]
    /\ ncalls = 0
    /\ cell = [f \in Factories |-> Cell0]
    /\ setups = [f \in Factories |-> 0]
    /\ dg = DgIdle
    /\ RunIdle
    /\ pipe = PipeIdle
    /\ AuxIdle

\* A goroutine calls one of the factories.
OnceCall(g) ==
    /\ th[g].stack = <<>>
    /\ ncalls < MaxCalls
    /\ ncalls' = ncalls + 1
    /\ \E f \in Factories :
         th' = [th EXCEPT ![g].stack = <<Frame(f)>>]
    /\ UNCHANGED <<cell, setups>>

\* Mutant of Memoized: getCtl is a plain function.
MemoizedExceptCtl(f) == f # "ctl"

\* var getSpkez, getK8s, getCtl = sync.OnceValues(func() ...): each of the
\* three factories is the function OnceValues returned.
Memoized(f) == f \in {"spkez", "k8s", "ctl"}

\* once.Do: `if o.done.Load() == 0 { o.doSlow(f) }`; a function that is not
\* wrapped runs at every call.
OnceLoad(g) ==
    /\ th[g].stack # <<>>
    /\ Top(g).pc = "load"
    /\ th' = At(g, IF ~Memoized(Top(g).f) THEN "run"
                   ELSE IF cell[Top(g).f].done THEN "ret" ELSE "lock")
    /\ UNCHANGED <<cell, setups, ncalls>>

\* doSlow: o.m.Lock()
OnceLock(g) ==
    /\ th[g].stack # <<>>
    /\ Top(g).pc = "lock"
    /\ cell[Top(g).f].mu = 0
    /\ cell' = [cell EXCEPT ![Top(g).f].mu = g]
    /\ th' = At(g, "check")
    /\ UNCHANGED <<setups, ncalls>>

\* doSlow: the second `o.done.Load() == 0`, under the mutex.
DoSlowCheck(done) == ~done

\* doSlow: the function runs when the flag is still not set; a caller that
\* lost the race finds it set.
OnceCheck(g) ==
    /\ th[g].stack # <<>>
    /\ Top(g).pc = "check"
    /\ IF DoSlowCheck(cell[Top(g).f].done)
       THEN th' = At(g, "run")
       ELSE th' = [th EXCEPT ![g].stack =
                     <<[Top(g) EXCEPT !.pc = "unlock", !.slow = TRUE]>> \o Tail(@)]
    /\ UNCHANGED <<cell, setups, ncalls>>

\* The factory's function starts; it first calls the factory it depends on.
OnceRun(g) ==
    /\ th[g].stack # <<>>
    /\ Top(g).pc = "run"
    /\ setups' = [setups EXCEPT ![Top(g).f] = @ + 1]
    /\ IF Dep[Top(g).f] = "none"
       THEN th' = At(g, "body")
       ELSE th' = [th EXCEPT ![g].stack =
                     <<Frame(Dep[Top(g).f]), [Top(g) EXCEPT !.pc = "body"]>> \o Tail(@)]
    /\ UNCHANGED <<cell, ncalls>>

\* The rest of the factory's function: the error of the factory it called
\* is returned as it is; otherwise its own setup runs and the machine or
\* the setup's error is returned.  OnceValues stores the results.
OnceBody(g) ==
    /\ th[g].stack # <<>>
    /\ Top(g).pc = "body"
    /\ LET f == Top(g).f IN
       \E e \in IF Top(g).r.err # nil THEN {Top(g).r.err} ELSE SetupErrs(f) \cup {nil} :
          cell' = [cell EXCEPT ![f].valid = TRUE, ![f].inst = setups[f], ![f].err = e]
    /\ th' = At(g, "store")
    /\ UNCHANGED <<setups, ncalls>>

\* doSlow: the deferred o.done.Store(1)
OnceStore(g) ==
    /\ th[g].stack # <<>>
    /\ Top(g).pc = "store"
    /\ cell' = [cell EXCEPT ![Top(g).f].done = TRUE]
    /\ th' = At(g, "unlock")
    /\ UNCHANGED <<setups, ncalls>>

\* doSlow: the deferred o.m.Unlock()
OnceUnlock(g) ==
    /\ th[g].stack # <<>>
    /\ Top(g).pc = "unlock"
    /\ cell' = [cell EXCEPT ![Top(g).f].mu = 0]
    /\ th' = At(g, "ret")
    /\ UNCHANGED <<setups, ncalls>>

\* The function OnceValues returned hands out the stored results.
OnceReturn(g) ==
    /\ th[g].stack # <<>>
    /\ Top(g).pc = "ret"
    /\ LET f == Top(g).f
           r == [f |-> f, inst |-> cell[f].inst, err |-> cell[f].err]
           rest == Tail(th[g].stack)
       IN  th' = [th EXCEPT
                    ![g].got = @ \cup {[f |-> f, inst |-> r.inst, err |-> r.err,
                                        slow |-> Top(g).slow]},
                    ![g].stack = IF rest = <<>> THEN rest
                                 ELSE <<[Head(rest) EXCEPT !.r = r]>> \o Tail(rest)]
    /\ UNCHANGED <<cell, setups, ncalls>>

\* The goroutines leave the variables of the other specifications alone.
Go(A) == A /\ UNCHANGED dg /\ UNCHANGED runVars /\ UNCHANGED pipe /\ UNCHANGED auxVars

OnceNext ==
    \E g \in Goroutines :
       \/ Go(OnceCall(g))
       \/ Go(OnceLoad(g))
       \/ Go(OnceLock(g))
       \/ Go(OnceCheck(g))
       \/ Go(OnceRun(g))
       \/ Go(OnceBody(g))
       \/ Go(OnceStore(g))
       \/ Go(OnceUnlock(g))
       \/ Go(OnceReturn(g))

SpecOnce == OnceInit /\ [][OnceNext]_vars

-----------------------------------------------------------------------------
(* SpecPipe: command.Copy(dst, src) between two commands.  The source      *)
(* writes to its output pipe, Copy moves what it reads there to the input  *)
(* pipe of the destination, the destination reads its input; each pipe     *)
(* holds at most cap chunks and a writer waits while its pipe is full.     *)

\* Largest pipe capacity and largest output of the source, in chunks.
MaxCap == 2

MaxOut == 5

\* Mutant of ConsumerReady: the destination is started only when the source
\* has ended.
ConsumerAfterProducer(p) == p.pdone

\* command.Copy: the destination command runs as soon as there is something
\* to write to it.
ConsumerReady(p) == TRUE

PipeInit ==
    /\ pipe = PipeIdle
    /\ dg = DgIdle
    /\ RunIdle
    /\ OnceIdle
    /\ AuxIdle

\* updateK3s calls command.Copy: both ends exist, the source runs.
PipeCopy ==
    /\ pipe.phase = "idle"
    /\ \E c \in 1..MaxCap, n \in 0..MaxOut :
         pipe' = [pipe EXCEPT !.phase = "running", !.cap = c, !.total = n]

\* The source writes one chunk; it waits while its output pipe is full.
Produce ==
    /\ pipe.phase = "running"
    /\ ~pipe.pdone
    /\ pipe.sent < pipe.total
    /\ Len(pipe.out) < pipe.cap
    /\ pipe' = [pipe EXCEPT !.sent = @ + 1, !.out = Append(@, pipe.sent + 1)]

\* The source has written everything and ends.
ProducerExit ==
    /\ pipe.phase = "running"
    /\ ~pipe.pdone
    /\ pipe.sent = pipe.total
    /\ pipe' = [pipe EXCEPT !.pdone = TRUE]

\* Copy reads a chunk from the source and writes it to the destination; it
\* waits while the input pipe of the destination is full.
CopyChunk ==
    /\ pipe.phase = "running"
    /\ pipe.out # <<>>
    /\ ConsumerReady(pipe)
    /\ Len(pipe.inp) < pipe.cap
    /\ pipe' = [pipe EXCEPT !.out = Tail(@), !.inp = Append(@, Head(pipe.out)),
                            !.started = TRUE]

\* Copy reads end-of-file from the source and closes the destination's input.
CopyClose ==
    /\ pipe.phase = "running"
    /\ pipe.pdone
    /\ pipe.out = <<>>
    /\ ~pipe.closed
    /\ pipe' = [pipe EXCEPT !.closed = TRUE, !.started = TRUE]

\* The destination reads one chunk of its input.
Consume ==
    /\ pipe.phase = "running"
    /\ pipe.started
    /\ pipe.inp # <<>>
    /\ pipe' = [pipe EXCEPT !.inp = Tail(@), !.recv = Append(@, Head(pipe.inp))]

\* The destination reads end-of-file and ends.
ConsumerExit ==
    /\ pipe.phase = "running"
    /\ pipe.started
    /\ pipe.closed
    /\ pipe.inp = <<>>
    /\ ~pipe.cdone
    /\ pipe' = [pipe EXCEPT !.cdone = TRUE]

\* Both commands ended: Copy returns.
PipeReturn ==
    /\ pipe.phase = "running"
    /\ pipe.pdone
    /\ pipe.cdone
    /\ pipe' = [pipe EXCEPT !.phase = "done"]

\* The pipe leaves the variables of the other specifications alone.
Piped(A) ==
    A /\ UNCHANGED dg /\ UNCHANGED runVars /\ UNCHANGED onceVars /\ UNCHANGED auxVars

PipeNext ==
    \/ Piped(PipeCopy)
    \/ Piped(Produce)
    \/ Piped(ProducerExit)
    \/ Piped(CopyChunk)
    \/ Piped(CopyClose)
    \/ Piped(Consume)
    \/ Piped(ConsumerExit)
    \/ Piped(PipeReturn)

SpecPipe == PipeInit /\ [][PipeNext]_vars

\* The source, Copy and the destination are a process and two goroutines of
\* their own: none of them is held back for ever while it can take a step.
SpecPipeFair ==
    /\ SpecPipe
    /\ WF_vars(Piped(Produce))
    /\ WF_vars(Piped(ProducerExit))
    /\ WF_vars(Piped(CopyChunk))
    /\ WF_vars(Piped(CopyClose))
    /\ WF_vars(Piped(Consume))
    /\ WF_vars(Piped(ConsumerExit))
    /\ WF_vars(Piped(PipeReturn))

-----------------------------------------------------------------------------
(* SpecMock: a test registers responses on a mock machine, then the step   *)
(* under test invokes commands on it.                                      *)

MaxMockCalls == 3

\* The invocations the steps issue on the machines the tests replace.
MockArgvs ==
    { cnpgApplyArgs,
      <<"apply", "-f", "-">>,
      <<"get", "k8s/cert-manager/cloudflare">>,
      <<"get", "secret", "regcred">> }

MockStdins == {<<>>, postgresClusterCfg, issuerCfg}

MockResponses == {<<"fake-cloudflare-token", "\n">>}

MockInit ==
    /\ mock = MockNew
    /\ ctx = "live"
    /\ rerun = Rerun0
    /\ pipe = PipeIdle
    /\ dg = DgIdle
    /\ RunIdle
    /\ OnceIdle

\* The test registers a response before it calls the step.
MockReturn ==
    /\ mock.log = <<>>
    /\ \E n \in MockNames, out \in MockResponses :
         /\ mock.canned[n] = MockNone
         /\ mock' = MockReturnOp(mock, n, out)

\* The step issues one invocation on the mock.
MockInvoke ==
    /\ Len(mock.log) < MaxMockCalls
    /\ \E argv \in MockArgvs, stdin \in MockStdins :
         mock' = [MockRecord(mock, argv, stdin) EXCEPT
                    !.log = Append(@, [argv |-> argv, stdin |-> stdin,
                                       out |-> MockOutput(mock, argv[1])])]

Mocked(A) ==
    A /\ UNCHANGED <<runVars, dg, onceVars, pipe, ctx, rerun>>

MockNext ==
    \/ Mocked(MockReturn)
    \/ Mocked(MockInvoke)

SpecMock == MockInit /\ [][MockNext]_vars

-----------------------------------------------------------------------------
(* Claims *)

\* C1: one invocation (cmd, args) on a delegate built from a non-empty
\* prefix P over M makes M observe exactly one invocation: program P[0],
\* arguments P[1:] then cmd then args, same stdin.  The ssh delegate of
\* getK8s is the instance the program builds: its inner shell observes
\* ssh -i <key> <host> -- cmd args.
C1_DelegatePrefix ==
    dg.phase = "invoked" =>
      /\ dg.p1 # <<>>
      /\ Len(dg.d1) = 1
      /\ dg.d1[1].argv = <<Head(dg.p1)>> \o Tail(dg.p1) \o dg.argv
      /\ dg.d1[1].stdin = dg.stdin
      /\ Len(dg.ssh) = 1
      /\ dg.ssh[1].argv = <<"ssh", "-i", dg.key, "k8s.lesiw.dev", "--">> \o dg.argv
      /\ dg.ssh[1].stdin = dg.stdin

\* C1 witness: a command with an empty argument list and a stdin payload
\* went through a two-element prefix.
C1_Witness ==
    /\ dg.phase = "invoked"
    /\ Len(dg.argv) = 1
    /\ Len(dg.p1) = 2
    /\ dg.stdin # <<>>
    /\ dg.d1[1].argv = dg.p1 \o dg.argv

\* C2: delegate(delegate(M, P1), P2) makes M observe what delegate(M, P1+P2)
\* makes it observe, and an invocation with argument list A on the control
\* machine of getCtl reaches the system machine as
\* ssh -i <key> <host> -- kubectl A.
C2_NestedDelegation ==
    dg.phase = "invoked" =>
      /\ dg.d2 = dg.d12
      /\ Len(dg.d2) = 1
      /\ dg.d2[1].argv = dg.p1 \o dg.p2 \o dg.argv
      /\ Len(dg.ctl) = 1
      /\ dg.ctl[1].argv =
           <<"ssh", "-i", dg.key, "k8s.lesiw.dev", "--", "kubectl">> \o dg.argv
      /\ dg.ctl[1].stdin = dg.stdin

\* C2 witness: `apply -f -` with a manifest on stdin went through the
\* control machine, and through two different nested prefixes.
C2_Witness ==
    /\ dg.phase = "invoked"
    /\ dg.argv = <<"apply", "-f", "-">>
    /\ dg.stdin = <<"manifest">>
    /\ dg.p1 # dg.p2
    /\ dg.ctl[1].argv[6] = "kubectl"
    /\ dg.d2[1].argv = dg.p1 \o dg.p2 \o dg.argv

Got == UNION {th[g].got : g \in DOMAIN th}

\* C3: each factory's function runs at most once whatever the number of
\* sequential or concurrent calls; every call returns the stored machine or
\* the stored error, the same for all callers; an error of getSpkez is the
\* error of getK8s, an error of getK8s is the error of getCtl.
C3_OnceValues ==
    /\ \A f \in DOMAIN setups : setups[f] <= 1
    /\ \A r \in Got :
         /\ cell[r.f].done
         /\ cell[r.f].valid
         /\ r.inst = cell[r.f].inst
         /\ r.err = cell[r.f].err
    /\ \A r1 \in Got, r2 \in Got :
         r1.f = r2.f => r1.inst = r2.inst /\ r1.err = r2.err
    /\ \A r1 \in Got, r2 \in Got :
         r1.f = Dep[r2.f] /\ r1.err # nil => r2.err = r1.err

\* C3 witness: a goroutine that lost the race for getSpkez's mutex got the
\* error the winner's setup produced, and getCtl handed the same error out.
C3_Witness ==
    /\ \E r \in Got : r.f = "spkez" /\ r.slow /\ r.err # nil
    /\ \E r \in Got : r.f = "ctl" /\ r.err # nil /\ r.err = cell["spkez"].err
    /\ \A f \in DOMAIN setups : setups[f] = 1

-----------------------------------------------------------------------------
(* Claims about the provisioning run *)

CallIdx == 1..Len(calls)

\* The command name of an invocation ("" for a file write).
Cmd(c) == IF c.argv = <<>> THEN "" ELSE c.argv[1]

StepIdx == 1..Len(steps)

Returned(step) == \E i \in StepIdx : steps[i].ev = "return" /\ steps[i].step = step

ReturnedOk(step) ==
    \E i \in StepIdx :
       steps[i].ev = "return" /\ steps[i].step = step /\ steps[i].err = nil

\* The two ends of a pipe are issued together: i and i + 1 are its ends.
PipeEnds(i) ==
    /\ i + 1 \in CallIdx
    /\ calls[i].op = "Copy.src"
    /\ calls[i + 1].op = "Copy.dst"
    /\ calls[i].fn = calls[i + 1].fn

C4_Steps ==
    <<"installAutopatch", "updateK3s", "setupTraefik", "setupPostgres",
      "setupCertManager", "setupContainerRegistry">>

\* The place of an invocation in the program text, counted along the run.
C4_Rank(c) ==
    IF c.fn = "getSpkez" THEN (IF c.op = "Call" THEN 1 ELSE 2)
    ELSE IF c.fn = "getK8s" THEN 3
    ELSE IF c.fn = "installAutopatch"
         THEN (IF c.path = "/usr/local/bin/autopatch" THEN 4 ELSE 5)
    ELSE IF c.fn = "updateK3s" THEN 6
    ELSE IF c.fn = "setupTraefik" THEN 8
    ELSE IF c.fn = "setupPostgres" THEN (IF c.op = "Exec" THEN 9 ELSE 10)
    ELSE IF c.fn = "setupCertManager"
         THEN (IF c.op = "Exec" THEN 11
               ELSE IF c.op = "Call" THEN 12
               ELSE IF c.stdin = issuerCfg THEN 14 ELSE 13)
    ELSE IF c.op = "Call" THEN 15
    ELSE IF c.op = "Copy.dst" THEN (IF c.stdin = registryCfg THEN 17 ELSE 16)
    ELSE IF c.argv[1] = "get" THEN 18 ELSE 19

\* C4: run executes the steps in the order installAutopatch, updateK3s,
\* setupTraefik, setupPostgres, setupCertManager, setupContainerRegistry,
\* each entered only after the one before it returned; the invocations are
\* issued in program order, each while its own step is the one in progress
\* (the two ends of a pipe count as one invocation).
C4_StepOrder ==
    /\ \A i \in StepIdx :
         /\ steps[i].ev = (IF i % 2 = 1 THEN "enter" ELSE "return")
         /\ (i + 1) \div 2 <= Len(C4_Steps)
         /\ steps[i].step = C4_Steps[(i + 1) \div 2]
         /\ steps[i].ev = "enter" /\ i > 1 => steps[i - 1].err = nil
    /\ \A i \in CallIdx, j \in CallIdx :
         i < j => \/ C4_Rank(calls[i]) < C4_Rank(calls[j])
                  \/ j = i + 1 /\ PipeEnds(i)
    /\ \A i \in CallIdx :
         calls[i].step = (IF calls[i].fn \in {"getSpkez", "getK8s"}
                          THEN "installAutopatch" ELSE calls[i].fn)

\* C4 witness: a run that went through all six steps, the install of the
\* secrets CLI and the guarded create included.
C4_Witness ==
    /\ pc = "exit"
    /\ exit = "0"
    /\ Len(steps) = 12
    /\ Len(calls) = 19
    /\ calls[8].fn = "setupTraefik"
    /\ calls[9].fn = "setupPostgres"

C5_Tolerated(c) ==
    \/ c.m = "ctl" /\ c.argv = <<"get", "secret", "regcred">>
    \/ c.fn = "getSpkez" /\ c.argv = <<"spkez", "--version">> /\ c.res = "notfound"

C5_ExitAndStderr ==
    /\ pc # "exit" => exit = "running" /\ stderr = <<>>
    /\ pc = "exit" =>
         /\ exit \in {"0", "1"}
         /\ exit = "0" <=> \A k \in 1..Len(C4_Steps) : ReturnedOk(C4_Steps[k])
         /\ exit = "0" => stderr = <<>>
         /\ exit = "1" =>
              /\ Len(stderr) = 1
              /\ stderr[1] # nil
              /\ steps[Len(steps)].err # nil
              /\ Cause(stderr[1]) = Cause(steps[Len(steps)].err)

\* C5 as stated: once any invocation failed no further invocation is
\* issued, the error is printed and the exit code is non-zero; the exit
\* code is zero exactly when every step succeeded.
C5_Original ==
    /\ \A i \in CallIdx :
         calls[i].res # "ok" =>
           /\ i = Len(calls) \/ PipeEnds(i)
           /\ pc = "exit" => exit = "1"
    /\ C5_ExitAndStderr

\* C5 amended: the same, for every failed invocation other than the regcred
\* existence check and a not-found `spkez --version`; after those two only
\* the guarded create, respectively the install, is issued next.
C5_SinglePassFail ==
    /\ \A i \in CallIdx :
         calls[i].res # "ok" /\ ~C5_Tolerated(calls[i]) =>
           /\ i = Len(calls) \/ PipeEnds(i)
           /\ pc = "exit" => exit = "1"
    /\ \A i \in CallIdx :
         calls[i].res # "ok" /\ C5_Tolerated(calls[i]) /\ i < Len(calls) =>
           Cmd(calls[i + 1]) = (IF calls[i].m = "ctl" THEN "create" ELSE "go")
    /\ C5_ExitAndStderr

\* C5 witness: the existence check failed, the create was issued and failed
\* too, and the process ended with code 1 and the error on stderr.
C5_Witness ==
    /\ pc = "exit"
    /\ exit = "1"
    /\ Len(calls) >= 2
    /\ calls[Len(calls) - 1].argv = <<"get", "secret", "regcred">>
    /\ calls[Len(calls) - 1].res # "ok"
    /\ Cmd(calls[Len(calls)]) = "create"
    /\ calls[Len(calls)].res # "ok"
    /\ stderr = <<<<"failed to setup container registry",
                    "could not store registry secret", "exit status 1">>>>

\* C6: the pipe of updateK3s fails whenever one of its ends fails, so
\* updateK3s returns nil only when curl and sh both succeeded; a pipe from
\* a manifest into a command fails when the command fails.
C6_PipeFailure ==
    /\ \A i \in StepIdx :
         steps[i].ev = "return" /\ steps[i].step = "updateK3s" =>
           \E a \in CallIdx, b \in CallIdx :
              /\ Cmd(calls[a]) = "curl"
              /\ Cmd(calls[b]) = "sh"
              /\ steps[i].err = nil <=> (calls[a].res = "ok" /\ calls[b].res = "ok")
              /\ steps[i].err # nil => steps[i].err[1] = "could not update k3s"
    /\ \A i \in CallIdx :
         calls[i].op \in {"Copy.src", "Copy.dst"} /\ calls[i].res # "ok" =>
           /\ Returned(calls[i].fn)
           /\ ~ReturnedOk(calls[i].fn)

\* C6 witness: curl failed without output, sh succeeded on the empty input,
\* and updateK3s returned the error.
C6_Witness ==
    /\ Returned("updateK3s")
    /\ ~ReturnedOk("updateK3s")
    /\ \E a \in CallIdx :
          /\ Cmd(calls[a]) = "curl"
          /\ calls[a].res = "fail"
          /\ calls[a].out = <<>>
          /\ Cmd(calls[a + 1]) = "sh"
          /\ calls[a + 1].res = "ok"

C7_Checks == {i \in CallIdx : calls[i].argv = <<"get", "secret", "regcred">>}

C7_Creates == {i \in CallIdx : Cmd(calls[i]) = "create"}

\* The create invocation for the password the auth lookup at index a printed.
C7_CreateArgv(a) ==
    <<"create", "secret", "docker-registry", "regcred",
      "--docker-server=ctr.lesiw.dev", "--docker-username=ll",
      "--docker-password=" \o Join(TrimNewlines(calls[a].out))>>

\* C7: in setupContainerRegistry `get secret regcred` is issued once, after
\* the basic-auth apply and the registry apply; the create is issued exactly
\* when the check failed, at most once, with the user "ll" and the retrieved
\* password in its arguments; the failure of the check is never the error
\* of the step, and after a successful check the step returns nil with no
\* create.
C7_GuardedCreate ==
    /\ Cardinality(C7_Checks) <= 1
    /\ Cardinality(C7_Creates) <= 1
    /\ ReturnedOk("setupContainerRegistry") => Cardinality(C7_Checks) = 1
    /\ \A j \in C7_Creates : j - 1 \in C7_Checks /\ calls[j - 1].res # "ok"
    /\ \A i \in C7_Checks :
         /\ i > 3
         /\ calls[i].m = "ctl"
         /\ calls[i].fn = "setupContainerRegistry"
         /\ calls[i - 3].argv = <<"get", "ctr.lesiw.dev/auth">>
         /\ calls[i - 2].argv = <<"apply", "-f", "-">>
         /\ calls[i - 2].stdin[3] = "type: kubernetes.io/basic-auth"
         /\ calls[i - 2].res = "ok"
         /\ calls[i - 1].argv = <<"apply", "-f", "-">>
         /\ calls[i - 1].stdin = registryCfg
         /\ calls[i - 1].res = "ok"
         /\ calls[i].res = "ok" =>
              /\ C7_Creates = {}
              /\ ReturnedOk("setupContainerRegistry")
         /\ calls[i].res # "ok" =>
              /\ i = Len(calls) <=> pc = "cr_create"
              /\ i = Len(calls) => ~Returned("setupContainerRegistry")
              /\ i < Len(calls) =>
                   /\ calls[i + 1].argv = C7_CreateArgv(i - 3)
                   /\ calls[i + 1].m = "ctl"
                   /\ Returned("setupContainerRegistry")
                   /\ ReturnedOk("setupContainerRegistry") <=> calls[i + 1].res = "ok"
                   /\ calls[i + 1].res # "ok" =>
                        steps[Len(steps)].err =
                          <<"could not store registry secret">> \o ErrOf(calls[i + 1].res)

\* C7 witness: the check answered not-found, the create followed with the
\* password spkez printed (newline trimmed), and the step returned nil.
C7_Witness ==
    /\ exit = "0"
    /\ \E i \in C7_Checks :
          /\ calls[i].res = "notfound"
          /\ calls[i - 3].out = <<"secret(ctr.lesiw.dev/auth)", "\n">>
          /\ calls[i + 1].argv[7] = "--docker-password=secret(ctr.lesiw.dev/auth)"
          /\ calls[i + 1].res = "ok"

\* C8: the create invocation is issued with the trace sink discarding,
\* verbose or not, and setupContainerRegistry returns with the trace sink
\* it was entered with, on every path.
C8_TraceHidden ==
    /\ \A j \in C7_Creates : calls[j].trace = "Discard"
    /\ pc = "cr_create" => Trace = "Discard"
    /\ \A i \in StepIdx :
         steps[i].ev = "return" /\ steps[i].step = "setupContainerRegistry" =>
           /\ steps[i - 1].ev = "enter"
           /\ steps[i - 1].step = "setupContainerRegistry"
           /\ steps[i].trace = steps[i - 1].trace
           /\ i = Len(steps) => Trace = steps[i - 1].trace

\* C8 witness: verbose mode, the create was issued with tracing hidden and
\* failed, and the trace sink is the visible one again.
C8_Witness ==
    /\ verbose
    /\ pc = "exit"
    /\ C7_Creates # {}
    /\ calls[Len(calls)].res = "fail"
    /\ calls[Len(calls)].trace = "Discard"
    /\ calls[Len(calls) - 1].trace = "ShTrace"
    /\ Trace = "ShTrace"

\* C9: after installAutopatch returned nil, /usr/local/bin/autopatch holds
\* the embedded script with mode 0755 and /etc/cron.d/autopatch holds the
\* cron line, whatever the two files were before.
C9_AutopatchFiles ==
    ReturnedOk("installAutopatch") =>
      /\ files["/usr/local/bin/autopatch"].exists
      /\ files["/usr/local/bin/autopatch"].data = autopatch
      /\ files["/usr/local/bin/autopatch"].mode = "0755"
      /\ files["/etc/cron.d/autopatch"].exists
      /\ files["/etc/cron.d/autopatch"].data = autopatchCron
      /\ files[OtherPath] = File(<<"old">>, ModeDefault)

\* C9 witness: the script replaced a file with other content and mode 0600,
\* the cron file did not exist before.
C9_Witness ==
    /\ ReturnedOk("installAutopatch")
    /\ \E a \in CallIdx, b \in CallIdx :
          /\ calls[a].path = "/usr/local/bin/autopatch"
          /\ calls[a].prior = File(<<"old">>, "0600")
          /\ calls[b].path = "/etc/cron.d/autopatch"
          /\ calls[b].prior = NoFile

C10_Curl == {i \in CallIdx : calls[i].argv = <<"curl", "-sfL", "https://get.k3s.io">>}

C10_Sh == {i \in CallIdx : calls[i].argv = <<"sh", "-s", "-">>}

\* C10: updateK3s issues one `curl -sfL https://get.k3s.io` and one
\* `sh -s -` on the remote shell machine; curl is the producer and sh the
\* consumer, and sh reads exactly what curl wrote.
C10_K3sPipe ==
    /\ Cardinality(C10_Curl) <= 1
    /\ Cardinality(C10_Sh) <= 1
    /\ \A i \in CallIdx : calls[i].fn = "updateK3s" => i \in C10_Curl \cup C10_Sh
    /\ Returned("updateK3s") => C10_Curl # {} /\ C10_Sh # {}
    /\ \A a \in C10_Curl, b \in C10_Sh :
         /\ calls[a].fn = "updateK3s" /\ calls[b].fn = "updateK3s"
         /\ calls[a].m = "k8s" /\ calls[b].m = "k8s"
         /\ calls[a].op = "Copy.src" /\ calls[b].op = "Copy.dst"
         /\ calls[a].stdin = <<>>
         /\ calls[b].stdin = calls[a].out
    /\ \A a \in C10_Curl : C10_Sh # {}
    /\ \A b \in C10_Sh : C10_Curl # {}

\* C10 witness: updateK3s returned nil after sh read the script curl wrote.
C10_Witness ==
    /\ ReturnedOk("updateK3s")
    /\ \E b \in C10_Sh : calls[b].stdin = <<"k3s install script">>

\* The invocations function fn issued, in the order it issued them.
StepCalls(fn) == SelectSeq(calls, LAMBDA c : c.fn = fn)

\* C11: setupCertManager applies the cert-manager install URL, then the
\* cloudflare secret manifest, then the issuer manifest, all on the control
\* machine, and looks the token up once on the secrets machine between the
\* first and the second apply; the secret manifest names
\* cert-manager-cloudflare-token and carries the token without its newline.
C11_CertManager ==
    LET cs == StepCalls("setupCertManager") IN
    /\ Len(cs) <= 4
    /\ ReturnedOk("setupCertManager") => Len(cs) = 4 /\ cs[4].res = "ok"
    /\ Len(cs) >= 1 =>
         /\ cs[1].m = "ctl"
         /\ cs[1].argv = <<"apply", "-f", certManagerURL>>
         /\ cs[1].stdin = <<>>
    /\ Len(cs) >= 2 =>
         /\ cs[1].res = "ok"
         /\ cs[2].m = "spkez"
         /\ cs[2].argv = <<"get", "k8s/cert-manager/cloudflare">>
    /\ Len(cs) >= 3 =>
         /\ cs[2].res = "ok"
         /\ cs[3].m = "ctl"
         /\ cs[3].argv = <<"apply", "-f", "-">>
         /\ cs[3].stdin[2] = "name: cert-manager-cloudflare-token"
         /\ cs[3].stdin[4] = "api-token: secret(k8s/cert-manager/cloudflare)"
         /\ cs[3].stdin[4] = "api-token: " \o Join(TrimNewlines(cs[2].out))
    /\ Len(cs) >= 4 =>
         /\ cs[3].res = "ok"
         /\ cs[4].m = "ctl"
         /\ cs[4].argv = <<"apply", "-f", "-">>
         /\ cs[4].stdin = issuerCfg

\* C11 witness: the token came with a trailing newline and all four
\* invocations of setupCertManager succeeded.
C11_Witness ==
    /\ ReturnedOk("setupCertManager")
    /\ Len(StepCalls("setupCertManager")) = 4
    /\ StepCalls("setupCertManager")[2].out = <<"secret(k8s/cert-manager/cloudflare)", "\n">>

\* C12: the embedded manifests reach the control machine as they are:
\* setupTraefik issues one `apply -f -` with the traefik manifest;
\* setupPostgres issues the server-side CNPG apply and then `apply -f -`
\* with the cluster manifest; the second apply of setupContainerRegistry
\* receives the registry manifest.
C12_Manifests ==
    LET st == StepCalls("setupTraefik")
        spg == StepCalls("setupPostgres")
        cr == StepCalls("setupContainerRegistry")
    IN
    /\ Len(st) <= 1
    /\ ReturnedOk("setupTraefik") => Len(st) = 1
    /\ Len(st) >= 1 =>
         /\ st[1].m = "ctl"
         /\ st[1].argv = <<"apply", "-f", "-">>
         /\ st[1].stdin = <<"traefik.yml">>
    /\ Len(spg) <= 2
    /\ ReturnedOk("setupPostgres") => Len(spg) = 2
    /\ Len(spg) >= 1 =>
         /\ spg[1].m = "ctl"
         /\ spg[1].argv = <<"apply", "--server-side", "--force-conflicts", "-f",
                            "https://raw.githubusercontent.com/cloudnative-pg/cloudnative-pg/release-1.25/releases/cnpg-1.25.0.yaml">>
         /\ spg[1].stdin = <<>>
    /\ Len(spg) >= 2 =>
         /\ spg[1].res = "ok"
         /\ spg[2].m = "ctl"
         /\ spg[2].argv = <<"apply", "-f", "-">>
         /\ spg[2].stdin = <<"cluster.yml">>
    /\ Len(cr) >= 3 =>
         /\ cr[2].argv = <<"apply", "-f", "-">>
         /\ cr[3].m = "ctl"
         /\ cr[3].argv = <<"apply", "-f", "-">>
         /\ cr[3].stdin = <<"registry.yml">>

\* C12 witness: the three steps returned nil after their applies.
C12_Witness ==
    /\ ReturnedOk("setupTraefik")
    /\ ReturnedOk("setupPostgres")
    /\ ReturnedOk("setupContainerRegistry")
    /\ StepCalls("setupPostgres")[2].stdin = postgresClusterCfg

\* The invocations of commands (file writes are the library's own commands).
C13_Commands == {i \in CallIdx : calls[i].op # "WriteFile"}

C14_WitnessWrite ==
    /\ pc = "exit"
    /\ tmpfs.state = "closed"
    /\ tmpfs.removed = File(<<>>, "0600")
    /\ stderr = <<<<"could not write ssh key", "i/o error">>>>

C15_Lookups == {i \in CallIdx : calls[i].argv = <<"spkez", "--version">>}

C15_Installs == {i \in CallIdx : Cmd(calls[i]) = "go"}

\* What the lookup and the install have in common in both readings: the
\* install follows a not-found lookup only, at most once, and a failed
\* lookup of another kind or a failed install is the error of getSpkez.
C15_InstallGuard ==
    /\ Cardinality(C15_Installs) <= 1
    /\ \A j \in C15_Installs :
         /\ calls[j].argv = <<"go", "install", "lesiw.io/spkez@latest">>
         /\ j - 1 \in C15_Lookups
         /\ calls[j - 1].res = "notfound"
         /\ once["spkez"].done
         /\ calls[j].res # "ok" =>
              /\ once["spkez"].err = <<"could not install spkez", "exit status 1">>
              /\ \A k \in C15_Lookups : k < j
    /\ \A i \in C15_Lookups :
         /\ calls[i].res = "fail" =>
              /\ C15_Installs = {}
              /\ once["spkez"].done
              /\ once["spkez"].err = <<"error checking spkez", "exit status 1">>
         /\ calls[i].res = "ok" =>
              /\ C15_Installs = {}
              /\ once["spkez"].done
              /\ once["spkez"].err = nil
         /\ calls[i].res = "notfound" =>
              pc = "getSpkez_install" \/ i + 1 \in C15_Installs

\* C15 as stated: after the install the tool is looked up again.
C15_Original ==
    /\ C15_InstallGuard
    /\ \A j \in C15_Installs :
         calls[j].res = "ok" => \E k \in C15_Lookups : k > j

\* C15 amended: getSpkez looks the tool up once; the install follows only a
\* not-found lookup, at most once; after a successful install the machine
\* is returned without another lookup; any other lookup failure and a
\* failed install are returned as errors.
C15_Bootstrap ==
    /\ C15_InstallGuard
    /\ Cardinality(C15_Lookups) <= 1
    /\ C15_Lookups \subseteq {1}
    /\ \A j \in C15_Installs :
         calls[j].res = "ok" =>
           /\ once["spkez"].err = nil
           /\ machines["spkez"] = SubMachine("spkezSh", <<"spkez">>)

\* C15 witness: the lookup answered not-found, the install succeeded and
\* the next invocation is the first use of the tool.
C15_Witness ==
    /\ Len(calls) >= 3
    /\ calls[1].argv = <<"spkez", "--version">>
    /\ calls[1].res = "notfound"
    /\ calls[2].argv[1] = "go"
    /\ calls[2].res = "ok"
    /\ calls[3].base = <<"spkez", "get", "infra/ssh">>

\* The description each invocation's failure is wrapped in, by the place of
\* the invocation in the program text (C4_Rank).
C16_Msgs ==
    <<"error checking spkez", "could not install spkez", "could not get ssh key",
      "could not install autopatch", "could not install autopatch cron job",
      "could not update k3s", "could not update k3s",
      "could not configure traefik", "could not install CNPG",
      "could not install PG cluster", "could not install cert-manager",
      "could not get cloudflare API key", "could not store cloudflare secret",
      "could not create cloudflare issuer", "could not get registry auth secret",
      "could not store registry auth secret", "could not install registry",
      "", "could not store registry secret">>

\* The description run puts in front of the error of each step.
C16_Outer ==
    [installAutopatch |-> "",
     updateK3s |-> "failed to install or update k3s",
     setupTraefik |-> "failed to set up traefik",
     setupPostgres |-> "failed to set up postgres",
     setupCertManager |-> "failed to set up cert-manager",
     setupContainerRegistry |-> "failed to setup container registry"]

C16_Causes == {"exit status 1", "command not found", "i/o error"}

\* The invocation whose failure ended the run: the last one, or the source
\* of the pipe when the last two are the ends of a pipe and only the source
\* failed.  0 when the last invocation did not fail.
C16_Failed ==
    IF calls # <<>> /\ calls[Len(calls)].res # "ok" THEN Len(calls)
    ELSE IF Len(calls) > 1 /\ PipeEnds(Len(calls) - 1)
            /\ calls[Len(calls) - 1].res # "ok" THEN Len(calls) - 1
    ELSE 0

C16_WitnessStep ==
    /\ pc = "exit"
    /\ stderr = <<<<"failed to set up cert-manager",
                    "could not store cloudflare secret", "exit status 1">>>>

\* C17: a pipe whose source writes more than the pipes between the two
\* commands can hold still ends: whatever the capacity and the amount of
\* output, Copy returns after both commands ended, and the destination has
\* read everything the source wrote, in order.
C17_PipeTerminates ==
    /\ [](pipe.phase = "done" =>
            /\ pipe.pdone /\ pipe.cdone
            /\ Len(pipe.recv) = pipe.total
            /\ \A k \in 1..Len(pipe.recv) : pipe.recv[k] = k)
    /\ (pipe.phase = "running") ~> (pipe.phase = "done")

\* C17 witness: Copy returned although the source wrote more than both
\* pipes hold together.
C17_Witness ==
    /\ pipe.phase = "done"
    /\ pipe.total > 2 * pipe.cap
    /\ Len(pipe.recv) = pipe.total

-----------------------------------------------------------------------------
(* Claims about cancellation (SpecCancel) *)

\* The invocations issued while the context of the run was cancelled: the
\* first of them is the command the run was blocked in.
C18_Blocked == {i \in CallIdx : calls[i].ctxdone}

\* C18: a cancellation delivered to the run aborts the command the run is
\* blocked in, inside a step or inside the machine construction (secrets
\* CLI check, install, ssh-key retrieval); no further invocation is issued
\* and the run ends with the cancellation error.
C18_Cancellation ==
    /\ \A i \in C18_Blocked :
         /\ calls[i].res = "cancelled"
         /\ i = Len(calls) \/ (PipeEnds(i) /\ i + 1 = Len(calls))
    /\ pc = "exit" /\ C18_Blocked # {} =>
         /\ exit = "1"
         /\ Len(stderr) = 1
         /\ Cause(stderr[1]) = Cause(ErrCanceled)

\* C18, where it fails: the context was cancelled while the run was blocked
\* in the ssh-key retrieval of getK8s; the command completed, the key was
\* written, and only the first invocation of the step was aborted.
C18_Witness ==
    /\ pc = "exit"
    /\ \E i \in C18_Blocked :
         /\ calls[i].fn = "getK8s"
         /\ calls[i].res = "ok"
         /\ \A j \in 1..(i - 1) : ~calls[j].ctxdone
         /\ i < Len(calls)
         /\ calls[Len(calls)].res = "cancelled"
    /\ Cause(stderr[1]) = Cause(ErrCanceled)

-----------------------------------------------------------------------------
(* Claims about a second run (SpecRerun) *)

-----------------------------------------------------------------------------
(* Claims about retries *)

\* The invocation as the program text spells it: its place and operation.
C20_Site(c) == <<C4_Rank(c), c.op>>

\* The invocation as the machine receives it.
C20_Request(c) == <<c.m, c.op, c.argv, c.stdin, c.path>>

\* C20: nothing is retried.  In one run every invocation of the program
\* text is issued at most once, an invocation that failed is never issued
\* again, and after a failed invocation the only invocation issued is the
\* other end of its pipe, the create after a failed existence check, or
\* the install after a not-found lookup.
C20_NoRetry ==
    /\ \A i, j \in CallIdx :
         i # j => C20_Site(calls[i]) # C20_Site(calls[j])
    /\ \A i, j \in CallIdx :
         i < j /\ calls[i].res # "ok" =>
           C20_Request(calls[i]) # C20_Request(calls[j])
    /\ \A i \in CallIdx :
         calls[i].res # "ok" /\ i < Len(calls) =>
           \/ PipeEnds(i) /\ i + 1 = Len(calls)
           \/ /\ calls[i].argv = <<"get", "secret", "regcred">>
              /\ Cmd(calls[i + 1]) = "create"
              /\ i + 1 = Len(calls)
           \/ /\ calls[i].argv = <<"spkez", "--version">>
              /\ calls[i].res = "notfound"
              /\ calls[i + 1].argv = <<"go", "install", "lesiw.io/spkez@latest">>
              /\ \A j \in (i + 1)..Len(calls) :
                   calls[j].argv # <<"spkez", "--version">>

\* C20 witness: a run that went through both tolerated failures, the
\* not-found lookup and the failed existence check, and ended after the
\* create with each of them issued once.
C20_Witness ==
    /\ pc = "exit"
    /\ Cmd(calls[Len(calls)]) = "create"
    /\ Cardinality({i \in CallIdx : calls[i].argv = <<"spkez", "--version">>}) = 1
    /\ calls[1].res = "notfound"
    /\ Cardinality(C7_Checks) = 1
    /\ \E i \in C7_Checks : calls[i].res = "fail"

-----------------------------------------------------------------------------
(* Claims about the mock machine (SpecMock) *)

\* The invocations of one command name, in the order they were made.
C21_Made(name) == SelectSeq(mock.log, LAMBDA l : l.argv[1] = name)

\* C21: for each command name the mock holds one entry per invocation of
\* that name, in the order of the invocations, each with the whole argument
\* vector and the whole stdin of its invocation; a response registered for
\* a name is what every invocation of that name returned.
C21_MockRecords ==
    \A n \in MockNames :
       /\ Len(CallsFor(mock, n)) = Len(C21_Made(n))
       /\ \A k \in 1..Len(C21_Made(n)) :
            /\ CallsFor(mock, n)[k].Args = C21_Made(n)[k].argv
            /\ CallsFor(mock, n)[k].Got = C21_Made(n)[k].stdin
            /\ mock.canned[n] # MockNone => C21_Made(n)[k].out = mock.canned[n]

\* C21 witness: two applies with a get between them, the second apply with
\* a manifest on stdin, and the get answered with the registered token.
C21_Witness ==
    /\ Len(mock.log) = 3
    /\ mock.log[1].argv = cnpgApplyArgs
    /\ mock.log[2].argv = <<"get", "k8s/cert-manager/cloudflare">>
    /\ mock.log[2].out = <<"fake-cloudflare-token", "\n">>
    /\ mock.log[3].argv = <<"apply", "-f", "-">>
    /\ mock.log[3].stdin = postgresClusterCfg
    /\ Len(CallsFor(mock, "apply")) = 2

-----------------------------------------------------------------------------
(* Claims about the passthrough sets *)

\* The passthrough commands of every machine.
C22_Handled(ms) == [m \in MachineIds |-> ms[m].handled]

\* C22: the passthrough set of a machine is set while the machine is
\* constructed and never afterwards: a machine that exists keeps its set,
\* and outside the factories (in the provisioning steps) no set changes.
C22_HandledFrozen ==
    [][ /\ \A m \in MachineIds :
             machines[m].kind # "unbuilt" =>
               machines'[m].handled = machines[m].handled
        /\ stack = <<>> => C22_Handled(machines') = C22_Handled(machines)
        /\ once["spkez"].done /\ once["k8s"].done =>
             C22_Handled(machines') = C22_Handled(machines)
      ]_vars

\* C22 witness: every step ran on the machines getSpkez and getK8s
\* returned, and their passthrough sets are those of the construction.
C22_Witness ==
    /\ pc = "exit"
    /\ exit = "0"
    /\ Len(calls) > 10
    /\ machines["spkezSh"].handled = {"go", "spkez"}
    /\ machines["k8sSh"].handled = {"ssh"}
    /\ machines["k8s"].handled = {"sh", "curl", "kubectl"}
    /\ machines["ctl"].kind = "sub"

-----------------------------------------------------------------------------
(* Claims about the ssh key file *)

\* The key file holds key material.
C23_HoldsKey(t) == t.key.exists /\ t.key.data # <<>>

\* One step of the run, as C23 allows it.
C23_Step ==
    /\ (~C23_HoldsKey(tmpfs) /\ C23_HoldsKey(tmpfs')) =>
          (/\ tmpfs.key.exists
           /\ tmpfs.key.mode = "0600"
           /\ tmpfs'.key.mode = "0600")
    /\ (pc = "k8s_write" /\ pc' # "k8s_data") =>
          (/\ ~tmpfs'.key.exists
           /\ once'["k8s"].done
           /\ once'["k8s"].err # nil)
    /\ (once["k8s"].done /\ once["k8s"].err # nil) => ~C23_HoldsKey(tmpfs')

\* C23: whenever the key file holds key material its mode is 0600; the
\* mode is set before the content is written (content appears only in a
\* file that exists with mode 0600), and when setting it fails nothing is
\* written: the file does not exist then and never will.
C23_KeyOwnerOnly ==
    /\ [](C23_HoldsKey(tmpfs) => tmpfs.key.mode = "0600")
    /\ [][C23_Step]_vars

\* C23 witness: the key is in the file, with its newline and mode 0600,
\* and the remote shell was built on it.
C23_Witness ==
    /\ tmpfs.state = "open"
    /\ C23_HoldsKey(tmpfs)
    /\ tmpfs.key.data = loc.sshkey \o <<"\n">>
    /\ tmpfs.key.mode = "0600"
    /\ machines["k8s"].kind = "shell"

\* C23 witness: creating the file with its mode failed; getK8s returned
\* the error and the file does not exist.
C23_WitnessFailed ==
    /\ once["k8s"].done
    /\ once["k8s"].err = Errorf("could not write ssh key", ErrIO)
    /\ ~tmpfs.key.exists
    /\ tmpfs.removed = NoFile
    /\ pc = "exit"

-----------------------------------------------------------------------------
(* Claims about secrets and the trace sink *)

\* The text t occurs in the text s.
C24_Contains(s, t) ==
    \E i \in 1..(Len(s) - Len(t) + 1) : SubSeq(s, i, i + Len(t) - 1) = t

\* The secret values the run has obtained from the secrets CLI.
C24_Secrets ==
    { Join(TrimNewlines(calls[i].out)) :
        i \in {j \in CallIdx : /\ calls[j].m = "spkez"
                               /\ calls[j].op = "Call"
                               /\ calls[j].res = "ok"} }

\* Some piece of the texts holds a secret value.
C24_Holds(texts) ==
    \E s \in C24_Secrets, k \in 1..Len(texts) : C24_Contains(texts[k], s)

\* What the trace sink is given of an invocation: its command line, as
\* issued and as the system machine runs it.
C24_Echo(c) == c.argv \o c.base

\* C24: no secret value reaches the trace sink, verbose or not.  An
\* invocation echoed to the visible sink has no secret in its command
\* line; the secrets go to apply on stdin; the only command line with a
\* secret is that of create secret, issued with the sink discarding.
C24_NoSecretTraced ==
    /\ \A i \in CallIdx :
         calls[i].trace # "Discard" => ~C24_Holds(C24_Echo(calls[i]))
    /\ \A i \in CallIdx :
         C24_Holds(C24_Echo(calls[i])) =>
           /\ Cmd(calls[i]) = "create"
           /\ calls[i].trace = "Discard"
    /\ \A i \in CallIdx :
         C24_Holds(calls[i].stdin) =>
           /\ calls[i].argv = <<"apply", "-f", "-">>
           /\ calls[i].op = "Copy.dst"

\* C24 witness: a verbose run in which the token and the registry
\* password went to apply on stdin with tracing visible, and the password
\* went into the command line of the create with tracing discarded.
C24_Witness ==
    /\ verbose
    /\ pc = "exit"
    /\ exit = "0"
    /\ Cmd(calls[Len(calls)]) = "create"
    /\ C24_Holds(calls[Len(calls)].argv)
    /\ calls[Len(calls)].trace = "Discard"
    /\ Cardinality({i \in CallIdx : /\ C24_Holds(calls[i].stdin)
                                    /\ calls[i].trace = "ShTrace"}) = 2

-----------------------------------------------------------------------------
(* Claims about what precedes the first remote command *)

\* The invocations that go through the ssh prefix.
C25_Remote == {i \in CallIdx : calls[i].base # <<>> /\ calls[i].base[1] = "ssh"}

\* The key file as it is, or as it was when the process removed it.
C25_KeyFile == IF tmpfs.state = "closed" THEN tmpfs.removed ELSE tmpfs.key

\* The secrets CLI was found, or installed after a not-found lookup.
C25_CliAvailable ==
    /\ Len(calls) > 0
    /\ calls[1].argv = <<"spkez", "--version">>
    /\ \/ calls[1].res = "ok"
       \/ /\ calls[1].res = "notfound"
          /\ Len(calls) > 1
          /\ calls[2].argv = <<"go", "install", "lesiw.io/spkez@latest">>
          /\ calls[2].res = "ok"

\* The ssh key was retrieved and is in the key file, whole, with mode 0600.
C25_KeyWritten ==
    \E k \in CallIdx :
       /\ calls[k].argv = <<"get", "infra/ssh">>
       /\ calls[k].res = "ok"
       /\ C25_KeyFile = File(TrimNewlines(calls[k].out) \o <<"\n">>, "0600")

C25_State ==
    /\ C25_Remote # {} =>
         /\ C25_CliAvailable
         /\ C25_KeyWritten
         /\ once["k8s"].done /\ once["k8s"].err = nil
         /\ \A i \in C25_Remote : \A j \in 1..i :
              calls[j].fn \in {"getSpkez", "getK8s"} => calls[j].res # "fail"
    /\ once["k8s"].done /\ once["k8s"].err # nil =>
         /\ C25_Remote = {}
         /\ ~(C25_CliAvailable /\ C25_KeyWritten) \/
              Cause(once["k8s"].err) = Cause(ErrIO)
         /\ pc = "exit" =>
              /\ exit = "1"
              /\ Len(steps) = 2
              /\ steps[2] = Ret("installAutopatch", once["k8s"].err, Trace)
              /\ stderr = <<once["k8s"].err>>
    /\ once["ctl"].done => once["k8s"].done /\ once["ctl"].err = once["k8s"].err

\* A stored result of a factory stays what it is.
C25_Step ==
    \A f \in Factories : once[f].done => once'[f] = once[f]

\* C25: a command goes through the ssh prefix only after the secrets CLI
\* was found or installed, the ssh key retrieved and the key file written;
\* when one of these fails the run fails in installAutopatch with no
\* invocation through the ssh prefix, and the error getK8s stored is what
\* every later request for the remote shell or the control machine gets.
C25_NoRemoteBeforeKey ==
    /\ []C25_State
    /\ [][C25_Step]_vars

\* C25 witness: the key write failed; the run ended in its first step
\* with that error, without any invocation through the ssh prefix.
C25_Witness ==
    /\ pc = "exit"
    /\ once["k8s"].done
    /\ once["k8s"].err = Errorf("could not write ssh key", ErrIO)
    /\ C25_CliAvailable
    /\ C25_KeyFile.exists
    /\ C25_Remote = {}
    /\ Len(steps) = 2

\* C25 witness: remote commands were sent after the secrets CLI had been
\* installed and the key written.
C25_WitnessRemote ==
    /\ Cardinality(C25_Remote) > 3
    /\ calls[1].res = "notfound"
    /\ C25_KeyWritten

-----------------------------------------------------------------------------
(* Claims about the file modes of installAutopatch *)

\* The writes of one remote path.
C26_WritesOf(path) == {i \in CallIdx : calls[i].op = "WriteFile" /\ calls[i].path = path}

C26_State ==
    /\ \A i \in C26_WritesOf("/usr/local/bin/autopatch") : calls[i].mode = "0755"
    /\ \A i \in C26_WritesOf("/etc/cron.d/autopatch") :
         /\ calls[i].mode = NoMode
         /\ C26_WritesOf("/usr/local/bin/autopatch") = {i - 1}
         /\ calls[i].res = "ok" => files["/etc/cron.d/autopatch"].mode = "0644"
    /\ ReturnedOk("installAutopatch") =>
         /\ files["/usr/local/bin/autopatch"].mode = "0755"
         /\ files["/etc/cron.d/autopatch"].mode = "0644"

\* A file changes only in the write of its own path.
C26_Step ==
    \A p \in Paths :
       files'[p] # files[p] =>
         /\ Len(calls') = Len(calls) + 1
         /\ calls'[Len(calls')].op = "WriteFile"
         /\ calls'[Len(calls')].path = p

\* C26: the 0755 of installAutopatch is the mode of the script write
\* only; the cron file, written next, is written without a mode and gets
\* the default one; a write changes no file but the one it writes.
C26_ModeScoped ==
    /\ []C26_State
    /\ [][C26_Step]_vars

\* C26 witness: the cron file existed with mode 0600 and the script did
\* not exist; after installAutopatch the script is 0755, the cron file
\* 0644 and the third file is what it was.
C26_Witness ==
    /\ ReturnedOk("installAutopatch")
    /\ \E a \in C26_WritesOf("/usr/local/bin/autopatch"),
          b \in C26_WritesOf("/etc/cron.d/autopatch") :
          /\ calls[a].prior = NoFile
          /\ calls[b].prior = File(<<"old">>, "0600")
    /\ files["/usr/local/bin/autopatch"] = File(autopatch, "0755")
    /\ files["/etc/cron.d/autopatch"] = File(autopatchCron, "0644")
    /\ files[OtherPath] = File(<<"old">>, "0644")

====
